---- MODULE Spec2Model ----
(***************************************************************************)
(* A model of the Raft consensus core of the distributed file system      *)
(* (distributed-file-system/goraft/raft.go): persistent term/vote/log,    *)
(* the driver loop, the two RPCs with their per-peer goroutines, commit    *)
(* advancement, application of committed entries and the client entry      *)
(* point Apply.                                                             *)
(***************************************************************************)
EXTENDS Integers, Sequences, FiniteSets, TLC

(***************************************************************************)
(* Bounds of the exploration.                                              *)
(***************************************************************************)
\* highest term an election timeout may reach
MaxTerm == 2
\* longest in-memory log, sentinel included
MaxLog == 3
\* RPC calls that may be outstanding at the same time
MaxInFlight == 2
\* process kills from outside (panics are not counted)
MaxCrashes == 1
\* client calls of Apply over a run
MaxApplyCalls == 2
\* the longest log of the scenario with a batch of three commands
MaxBatchLog == 5

(***************************************************************************)
(* Program constants.                                                       *)
(***************************************************************************)
PAGE_SIZE == 4096
ENTRY_HEADER == 16
ENTRY_SIZE == 128
MAX_APPEND_ENTRIES_BATCH == 8000

\* the configured cluster members' ids (all nonzero); 0 is "no vote"
Servers == {1, 2, 3}
\* command payloads a client submits
Cmds == {<<97>>, <<98>>}

leaderState == "leader"
followerState == "follower"
candidateState == "candidate"

VARIABLES
  cluster,      \* cluster[s]: ids of the members the process of s was constructed with
  status,       \* per server: "running", "crashed", or "failed" (restore panicked)
  state,        \* per server: ServerState
  currentTerm,  \* per server
  votedFor,     \* votedFor[s][i] is s.cluster[i].votedFor; votedFor[s][s] is s's own vote
  log,          \* per server: sequence of Entry; log[s][1] is index 0 of the code
  commitIndex,  \* per server
  lastApplied,  \* per server
  nextIndex,    \* nextIndex[s][i] is s.cluster[i].nextIndex
  matchIndex,   \* matchIndex[s][i] is s.cluster[i].matchIndex
  pc,           \* per server: position of the driver loop
  goroutines,   \* per server: spawned per-peer goroutines that have not built their request
  calls,        \* RPC calls in flight: request on its way, or response on its way back
  disk,         \* per server: the metadata file, byte for byte
  applied,      \* per server: commands passed to statemachine.Apply by this process
  applyCalls,   \* client calls of Apply: sequence of records
  crashes,      \* number of kills so far
  leaders,      \* history: <<term, server>> of every becomeLeader that took the role
  committed     \* history: entries a leader's advanceCommitIndex marked committed

vars == <<cluster, status, state, currentTerm, votedFor, log, commitIndex, lastApplied,
          nextIndex, matchIndex, pc, goroutines, calls, disk, applied, applyCalls,
          crashes, leaders, committed>>

(***************************************************************************)
(* Helpers                                                                  *)
(***************************************************************************)
min(a, b) == IF a < b THEN a ELSE b

max(a, b) == IF a > b THEN a ELSE b

\* Go index i of a slice is TLA+ index i+1
At(l, i) == l[i + 1]

\* l[:n]
Prefix(l, n) == SubSeq(l, 1, n)

\* l[n:]
Suffix(l, n) == SubSeq(l, n + 1, Len(l))

(***************************************************************************)
(* Bytes.  A fixed-size, zero-padded byte area (an 8-byte integer field,   *)
(* the 112-byte payload area of a slot) is written as the sequence of its  *)
(* bytes up to the last nonzero one: two areas of the same size are equal  *)
(* exactly when these sequences are.                                        *)
(***************************************************************************)
\* binary.LittleEndian.PutUint64: the bytes of n, least significant first
RECURSIVE PutUint64(_)
PutUint64(n) == IF n = 0 THEN <<>> ELSE <<n % 256>> \o PutUint64(n \div 256)

\* binary.LittleEndian.Uint64: the value of the bytes, least significant first
RECURSIVE Uint64(_)
Uint64(b) == IF Len(b) = 0 THEN 0 ELSE b[1] + 256 * Uint64(Tail(b))

\* a byte sequence without its trailing zero bytes
RECURSIVE Trim(_)
Trim(b) == IF Len(b) > 0 /\ b[Len(b)] = 0 THEN Trim(Prefix(b, Len(b) - 1)) ELSE b

\* the first n bytes of a zero-padded area
Area(b, n) == [i \in 1..n |-> IF i <= Len(b) THEN b[i] ELSE 0]

\* copy(dst, src) on a zero-padded area of unbounded capacity
Copy(dst, src) == Trim(src \o Suffix(dst, min(Len(src), Len(dst))))

Sentinel == [Term |-> 0, Command |-> <<>>, result |-> <<>>]

(***************************************************************************)
(* The metadata file: the page (bytes 0-7 term, 8-15 votedFor, 16-23 log   *)
(* length; the rest of the 4096 stays zero) and the entry slots the file   *)
(* covers (bytes 0-7 term, 8-15 command length, 16-127 payload area).  A   *)
(* slot the file covers without ever having been written reads as zeros.   *)
(* A file without a page is the empty file.                                 *)
(***************************************************************************)
EmptyFile == [page |-> <<>>, slots |-> <<>>]

ZeroSlot == [term |-> <<>>, length |-> <<>>, data |-> <<>>]

\* the page persist writes
Page(term, vote, len) == <<PutUint64(term), PutUint64(vote), PutUint64(len)>>

\* the slots of entries[k..], written through the one reused buffer entryBytes
RECURSIVE EntrySlots(_, _, _)
EntrySlots(entries, k, buf) ==
  IF k > Len(entries) THEN <<>>
  ELSE LET data == Copy(buf, entries[k].Command)
           slot == [term |-> PutUint64(entries[k].Term),
                    length |-> PutUint64(Len(entries[k].Command)),
                    data |-> data]
       IN <<slot>> \o EntrySlots(entries, k + 1, data)

\* slots of the file after the slots new are written at slot offset off
WriteSlots(old, off, new) ==
  LET n == max(Len(old), off + Len(new))
  IN [i \in 1..n |->
        IF i > off /\ i <= off + Len(new) THEN new[i - off]
        ELSE IF i <= Len(old) THEN old[i]
        ELSE ZeroSlot]

\* Server.persist: the file after persist(writeLog, nNewEntries) returns
persist(file, term, vote, l, writeLog, nNewEntries) ==
  LET n == IF nNewEntries = 0 /\ writeLog THEN Len(l) ELSE nNewEntries
      newLogOffset == max(Len(l) - n, 0)
  IN [page |-> Page(term, vote, Len(l)),
      slots |-> IF writeLog /\ n > 0
                THEN WriteSlots(file.slots, newLogOffset,
                                EntrySlots(Suffix(l, newLogOffset), 1, <<>>))
                ELSE file.slots]

\* the file when persist(true, n) panics at a command that does not fit a
\* slot: the page has been written; the slots of the batch are in the
\* bufio.Writer, which has not been flushed
persistPanicked(file, term, vote, l) ==
  [page |-> Page(term, vote, Len(l)), slots |-> file.slots]

\* ensureLog that leaves an empty log empty
ensureLogSkipped(l) == l

\* Server.ensureLog
ensureLog(l) == IF Len(l) = 0 THEN <<Sentinel>> ELSE l

\* one slot decoded by restore
DecodeSlot(slot) ==
  [Term |-> Uint64(slot.term),
   Command |-> Area(slot.data, Uint64(slot.length)),
   result |-> <<>>]

\* Server.restore: ok is FALSE when restore panics (a slot read hits the end
\* of the file, or a slot's length field exceeds the payload area)
restore(file) ==
  IF Len(file.page) = 0
  THEN [ok |-> TRUE, currentTerm |-> 0, votedFor |-> 0, log |-> ensureLog(<<>>)]
  ELSE LET lenLog == Uint64(file.page[3])
       IN IF lenLog > Len(file.slots)
             \/ \E i \in 1..lenLog : Uint64(file.slots[i].length) > ENTRY_SIZE - ENTRY_HEADER
          THEN [ok |-> FALSE, currentTerm |-> 0, votedFor |-> 0, log |-> <<>>]
          ELSE [ok |-> TRUE,
                currentTerm |-> Uint64(file.page[1]),
                votedFor |-> Uint64(file.page[2]),
                log |-> ensureLog([i \in 1..lenLog |-> DecodeSlot(file.slots[i])])]

(***************************************************************************)
(* One server's fields, as a record: the operators below are the code's    *)
(* methods as functions from the record before to the record after.        *)
(***************************************************************************)
View(s) ==
  [id |-> s, state |-> state[s], currentTerm |-> currentTerm[s], votedFor |-> votedFor[s],
   log |-> log[s], commitIndex |-> commitIndex[s], lastApplied |-> lastApplied[s],
   nextIndex |-> nextIndex[s], matchIndex |-> matchIndex[s], file |-> disk[s]]

Put(sv) ==
  /\ state' = [state EXCEPT ![sv.id] = sv.state]
  /\ currentTerm' = [currentTerm EXCEPT ![sv.id] = sv.currentTerm]
  /\ votedFor' = [votedFor EXCEPT ![sv.id] = sv.votedFor]
  /\ log' = [log EXCEPT ![sv.id] = sv.log]
  /\ commitIndex' = [commitIndex EXCEPT ![sv.id] = sv.commitIndex]
  /\ lastApplied' = [lastApplied EXCEPT ![sv.id] = sv.lastApplied]
  /\ nextIndex' = [nextIndex EXCEPT ![sv.id] = sv.nextIndex]
  /\ matchIndex' = [matchIndex EXCEPT ![sv.id] = sv.matchIndex]
  /\ disk' = [disk EXCEPT ![sv.id] = sv.file]

\* Server.getVotedFor
getVotedFor(sv) == sv.votedFor[sv.id]

\* Server.setVotedFor
setVotedFor(sv, id) == [sv EXCEPT !.votedFor[sv.id] = id]

\* s.persist(writeLog, nNewEntries) on the record
Persisted(sv, writeLog, nNewEntries) ==
  [sv EXCEPT !.file = persist(sv.file, sv.currentTerm, getVotedFor(sv), sv.log,
                              writeLog, nNewEntries)]

\* updateTerm that leaves the vote as it is
updateTermKeepingVote(sv, msgTerm) ==
  IF msgTerm > sv.currentTerm
  THEN Persisted([sv EXCEPT !.currentTerm = msgTerm, !.state = followerState], FALSE, 0)
  ELSE sv

\* Server.updateTerm: the server after updateTerm(msg)
updateTerm(sv, msgTerm) ==
  IF msgTerm > sv.currentTerm
  THEN Persisted(setVotedFor([sv EXCEPT !.currentTerm = msgTerm, !.state = followerState], 0),
                 FALSE, 0)
  ELSE sv

\* a log test that compares the last terms only
logOkByTerm(sv, req) ==
  req.LastLogTerm >= At(sv.log, Len(sv.log) - 1).Term

\* the log-up-to-date test of HandleRequestVoteRequest
logOk(sv, req) ==
  LET lastLogTerm == At(sv.log, Len(sv.log) - 1).Term
      logLen == Len(sv.log) - 1
  IN \/ req.LastLogTerm > lastLogTerm
     \/ (req.LastLogTerm = lastLogTerm /\ req.LastLogIndex >= logLen)

\* Server.HandleRequestVoteRequest: the server after the call, and the response
HandleRequestVoteRequest(sv0, req) ==
  LET sv == updateTerm(sv0, req.Term)
      grant == /\ req.Term = sv.currentTerm
               /\ logOk(sv, req)
               /\ (getVotedFor(sv) = 0 \/ getVotedFor(sv) = req.CandidateId)
  IN IF req.Term < sv.currentTerm
     THEN [sv |-> sv, Term |-> sv.currentTerm, ok |-> FALSE]
     ELSE IF grant
     THEN [sv |-> Persisted(setVotedFor(sv, req.CandidateId), FALSE, 0),
           Term |-> sv.currentTerm, ok |-> TRUE]
     ELSE [sv |-> sv, Term |-> sv.currentTerm, ok |-> FALSE]

\* an entry as the RPC carries it: the result channel is not exported
Wire(e) == [Term |-> e.Term, Command |-> e.Command, result |-> <<>>]

\* the entry loop without the truncation at a conflicting entry
RECURSIVE ProcessEntriesKeeping(_, _, _, _, _)
ProcessEntriesKeeping(l, entries, next, k, nNewEntries) ==
  IF k > Len(entries) THEN [log |-> l, nNewEntries |-> nNewEntries]
  ELSE IF next + k - 1 < Len(l)
       THEN ProcessEntriesKeeping(l, entries, next, k + 1, nNewEntries)
       ELSE ProcessEntriesKeeping(Append(l, entries[k]), entries, next, k + 1, nNewEntries + 1)

\* the entry loop cutting the log at every entry of the request that the
\* log already holds, matching or not
RECURSIVE ProcessEntriesRewriting(_, _, _, _, _)
ProcessEntriesRewriting(l, entries, next, k, nNewEntries) ==
  IF k > Len(entries) THEN [log |-> l, nNewEntries |-> nNewEntries]
  ELSE LET i == next + k - 1
           cut == IF i < Len(l) THEN Prefix(l, i) ELSE l
       IN ProcessEntriesRewriting(Append(cut, entries[k]), entries, next, k + 1, nNewEntries + 1)

\* the entry loop of HandleAppendEntriesRequest from position k of the
\* request's entries on: the log after it and the number of appended
\* entries.  (The reallocation at i >= cap(s.log) keeps the contents: i never
\* exceeds len(s.log) in the loop, so there i = len(s.log).)
RECURSIVE ProcessEntries(_, _, _, _, _)
ProcessEntries(l, entries, next, k, nNewEntries) ==
  IF k > Len(entries) THEN [log |-> l, nNewEntries |-> nNewEntries]
  ELSE LET i == next + k - 1
           e == entries[k]
           cut == IF i < Len(l) /\ At(l, i).Term # e.Term THEN Prefix(l, i) ELSE l
       IN IF i < Len(cut)
          THEN ProcessEntries(cut, entries, next, k + 1, nNewEntries)
          ELSE ProcessEntries(Append(cut, e), entries, next, k + 1, nNewEntries + 1)

\* a consistency check that does not compare the terms
validPreviousLogAnyTerm(sv, req) ==
  \/ req.PrevLogIndex = 0
  \/ req.PrevLogIndex < Len(sv.log)

\* the consistency check of HandleAppendEntriesRequest
validPreviousLog(sv, req) ==
  \/ req.PrevLogIndex = 0
  \/ (req.PrevLogIndex < Len(sv.log) /\ At(sv.log, req.PrevLogIndex).Term = req.PrevLogTerm)

\* a handler that takes over the leader's commit index before its checks
HandleAppendEntriesRequestCommitFirst(sv0, req) ==
  LET sv1 == updateTerm(sv0, req.Term)
      sv2 == IF req.Term = sv1.currentTerm /\ sv1.state = candidateState
             THEN [sv1 EXCEPT !.state = followerState] ELSE sv1
      sv == [sv2 EXCEPT !.commitIndex = IF req.LeaderCommit > sv2.commitIndex
                                         THEN min(req.LeaderCommit, Len(sv2.log) - 1)
                                         ELSE sv2.commitIndex]
      done == ProcessEntries(sv.log, req.Entries, req.PrevLogIndex + 1, 1, 0)
      ci == IF req.LeaderCommit > sv.commitIndex
            THEN min(req.LeaderCommit, Len(done.log) - 1) ELSE sv.commitIndex
  IN IF req.Term < sv.currentTerm \/ sv.state # followerState \/ ~validPreviousLog(sv, req)
     THEN [sv |-> sv, Term |-> sv.currentTerm, ok |-> FALSE]
     ELSE [sv |-> Persisted([sv EXCEPT !.log = done.log, !.commitIndex = ci],
                            done.nNewEntries # 0, done.nNewEntries),
           Term |-> sv.currentTerm, ok |-> TRUE]

\* a handler that accepts entries in any role
HandleAppendEntriesRequestAnyRole(sv0, req) ==
  LET sv1 == updateTerm(sv0, req.Term)
      sv == IF req.Term = sv1.currentTerm /\ sv1.state = candidateState
            THEN [sv1 EXCEPT !.state = followerState] ELSE sv1
      done == ProcessEntries(sv.log, req.Entries, req.PrevLogIndex + 1, 1, 0)
      ci == IF req.LeaderCommit > sv.commitIndex
            THEN min(req.LeaderCommit, Len(done.log) - 1) ELSE sv.commitIndex
  IN IF req.Term < sv.currentTerm \/ ~validPreviousLog(sv, req)
     THEN [sv |-> sv, Term |-> sv.currentTerm, ok |-> FALSE]
     ELSE [sv |-> Persisted([sv EXCEPT !.log = done.log, !.commitIndex = ci],
                            done.nNewEntries # 0, done.nNewEntries),
           Term |-> sv.currentTerm, ok |-> TRUE]

\* Server.HandleAppendEntriesRequest: the server after the call, and the response
HandleAppendEntriesRequest(sv0, req) ==
  LET sv1 == updateTerm(sv0, req.Term)
      sv == IF req.Term = sv1.currentTerm /\ sv1.state = candidateState
            THEN [sv1 EXCEPT !.state = followerState] ELSE sv1
      done == ProcessEntries(sv.log, req.Entries, req.PrevLogIndex + 1, 1, 0)
      ci == IF req.LeaderCommit > sv.commitIndex
            THEN min(req.LeaderCommit, Len(done.log) - 1) ELSE sv.commitIndex
  IN IF req.Term < sv.currentTerm \/ sv.state # followerState \/ ~validPreviousLog(sv, req)
     THEN [sv |-> sv, Term |-> sv.currentTerm, ok |-> FALSE]
     ELSE [sv |-> Persisted([sv EXCEPT !.log = done.log, !.commitIndex = ci],
                            done.nNewEntries # 0, done.nNewEntries),
           Term |-> sv.currentTerm, ok |-> TRUE]

\* timeout without the persist call
timeoutUnsaved(sv) ==
  [sv EXCEPT !.state = candidateState,
             !.currentTerm = sv.currentTerm + 1,
             !.votedFor = [i \in Servers |-> IF i = sv.id THEN sv.id ELSE 0]]

\* Server.timeout when the election deadline has passed
timeout(sv) ==
  Persisted([sv EXCEPT !.state = candidateState,
                       !.currentTerm = sv.currentTerm + 1,
                       !.votedFor = [i \in Servers |-> IF i = sv.id THEN sv.id ELSE 0]],
            FALSE, 0)

\* the quorum without the + 1
HalfOnly(n) == n \div 2

\* quorum of a cluster of n members
Quorum(n) == n \div 2 + 1

\* the count without the server's own vote
VotesOfPeers(sv, members) ==
  Cardinality({i \in members \ {sv.id} : sv.votedFor[i] = sv.id})

\* the votes becomeLeader counts
Votes(sv, members) == Cardinality({i \in members : sv.votedFor[i] = sv.id})

\* becomeLeader without the no-op entry
becomeLeaderNoNoop(sv, members) ==
  IF Votes(sv, members) >= Quorum(Cardinality(members))
  THEN Persisted([sv EXCEPT !.state = leaderState,
                            !.nextIndex = [i \in Servers |-> IF i \in members THEN Len(sv.log) ELSE 0],
                            !.matchIndex = [i \in Servers |-> 0]],
                 FALSE, 0)
  ELSE sv

\* Server.becomeLeader
becomeLeader(sv, members) ==
  IF Votes(sv, members) >= Quorum(Cardinality(members))
  THEN Persisted([sv EXCEPT !.state = leaderState,
                            !.nextIndex = [i \in Servers |-> IF i \in members THEN Len(sv.log) ELSE 0],
                            !.matchIndex = [i \in Servers |-> 0],
                            !.log = Append(sv.log, [Term |-> sv.currentTerm, Command |-> <<>>,
                                                    result |-> <<>>])],
                 TRUE, 1)
  ELSE sv

\* the members advanceCommitIndex counts for index i
Replicated(sv, members, i) == {j \in members : j = sv.id \/ sv.matchIndex[j] >= i}

\* the same loop without the test log[i].Term == currentTerm
CommittableAnyTerm(sv, members) ==
  {i \in (sv.commitIndex + 1)..(Len(sv.log) - 1) :
     Cardinality(Replicated(sv, members, i)) >= Quorum(Cardinality(members))}

\* the indices the leader's loop of advanceCommitIndex may commit
Committable(sv, members) ==
  {i \in (sv.commitIndex + 1)..(Len(sv.log) - 1) :
     /\ Cardinality(Replicated(sv, members, i)) >= Quorum(Cardinality(members))
     /\ At(sv.log, i).Term = sv.currentTerm}

\* the commitIndex after the first half of advanceCommitIndex
NewCommitIndex(sv, members) ==
  IF sv.state = leaderState /\ Committable(sv, members) # {}
  THEN CHOOSE i \in Committable(sv, members) : \A j \in Committable(sv, members) : j <= i
  ELSE sv.commitIndex

\* advanceCommitIndex giving up at the first entry the state machine refuses
\* (a command whose kind byte is none of the three kinds)
advanceCommitIndexStopping(sv, members) ==
  LET ci == NewCommitIndex(sv, members)
      refused == {i \in (sv.lastApplied + 1)..ci :
                    i < Len(sv.log) /\ At(sv.log, i).Command # <<>> /\ At(sv.log, i).Command[1] > 2}
      last == IF refused = {} THEN ci
              ELSE (CHOOSE i \in refused : \A j \in refused : i <= j) - 1
  IN [sv EXCEPT !.commitIndex = ci, !.lastApplied = max(sv.lastApplied, last)]

\* Server.advanceCommitIndex (the entries it applies are log[lastApplied+1 .. commitIndex])
advanceCommitIndex(sv, members) ==
  LET ci == NewCommitIndex(sv, members)
  IN [sv EXCEPT !.commitIndex = ci, !.lastApplied = max(sv.lastApplied, ci)]

(***************************************************************************)
(* The state after NewServer and Start on every member: restore found no   *)
(* file, ensureLog put the sentinel, nothing has been written.             *)
(***************************************************************************)
Init ==
  /\ cluster = [s \in Servers |-> Servers]
  /\ status = [s \in Servers |-> "running"]
  /\ state = [s \in Servers |-> followerState]
  /\ currentTerm = [s \in Servers |-> 0]
  /\ votedFor = [s \in Servers |-> [i \in Servers |-> 0]]
  /\ log = [s \in Servers |-> <<Sentinel>>]
  /\ commitIndex = [s \in Servers |-> 0]
  /\ lastApplied = [s \in Servers |-> 0]
  /\ nextIndex = [s \in Servers |-> [i \in Servers |-> 0]]
  /\ matchIndex = [s \in Servers |-> [i \in Servers |-> 0]]
  /\ pc = [s \in Servers |-> "loop"]
  /\ goroutines = [s \in Servers |-> {}]
  /\ calls = {}
  /\ disk = [s \in Servers |-> EmptyFile]
  /\ applied = [s \in Servers |-> <<>>]
  /\ applyCalls = <<>>
  /\ crashes = 0
  /\ leaders = {}
  /\ committed = {}

Running(s) == s \in cluster[s] /\ status[s] = "running"

Peers(s) == cluster[s] \ {s}

\* the goroutines requestVote / appendEntries start, one per peer
Spawn(s, kind) == goroutines[s] \cup {<<kind, p>> : p \in Peers(s)}

(***************************************************************************)
(* The process of s dies (a kill, or a panic): its memory and goroutines   *)
(* are gone, the file stays.  Requests it has sent may still be served,    *)
(* nobody waits for the answer; requests on their way to it fail.          *)
(***************************************************************************)
\* what the end of the process of s does to everything but its file
Gone(s) ==
  /\ status' = [status EXCEPT ![s] = "crashed"]
  /\ state' = [state EXCEPT ![s] = followerState]
  /\ currentTerm' = [currentTerm EXCEPT ![s] = 0]
  /\ votedFor' = [votedFor EXCEPT ![s] = [i \in Servers |-> 0]]
  /\ log' = [log EXCEPT ![s] = <<>>]
  /\ commitIndex' = [commitIndex EXCEPT ![s] = 0]
  /\ lastApplied' = [lastApplied EXCEPT ![s] = 0]
  /\ nextIndex' = [nextIndex EXCEPT ![s] = [i \in Servers |-> 0]]
  /\ matchIndex' = [matchIndex EXCEPT ![s] = [i \in Servers |-> 0]]
  /\ pc' = [pc EXCEPT ![s] = "loop"]
  /\ goroutines' = [goroutines EXCEPT ![s] = {}]
  /\ applied' = [applied EXCEPT ![s] = <<>>]
  /\ calls' = {[c EXCEPT !.orphan = (c.orphan \/ c.from = s)] :
                 c \in {d \in calls : ~(d.from = s /\ d.phase = "rsp")
                                      /\ ~(d.to = s /\ d.phase = "req")}}
  /\ applyCalls' = [k \in 1..Len(applyCalls) |->
                      IF applyCalls[k].srv = s /\ applyCalls[k].status = "waiting"
                      THEN [applyCalls[k] EXCEPT !.status = "aborted"]
                      ELSE applyCalls[k]]

Die(s) == Gone(s) /\ UNCHANGED <<cluster, disk, leaders, committed>>

(***************************************************************************)
(* The driver loop.  An iteration reads s.state under the lock and then    *)
(* calls, each under the lock again: heartbeat and advanceCommitIndex      *)
(* (leader), timeout and advanceCommitIndex (follower), timeout and        *)
(* becomeLeader (candidate).  A call whose deadline has not passed changes *)
(* nothing, so only the calls that act are steps here; pc records the one  *)
(* place where the branch taken matters after the state it was taken for   *)
(* may have changed: becomeLeader follows a candidate's timeout call even  *)
(* if a handler has made the server a follower in between.                 *)
(***************************************************************************)
\* Server.heartbeat in the leader branch, the heartbeat deadline passed:
\* appendEntries() starts one goroutine per peer
Heartbeat(s) ==
  /\ Running(s) /\ pc[s] = "loop" /\ state[s] = leaderState
  /\ goroutines' = [goroutines EXCEPT ![s] = Spawn(s, "AE")]
  /\ UNCHANGED <<cluster, status, state, currentTerm, votedFor, log, commitIndex,
                 lastApplied, nextIndex, matchIndex, pc, calls, disk, applied,
                 applyCalls, crashes, leaders, committed>>

\* Server.timeout in the follower branch, the election deadline passed
FollowerTimeout(s, maxTerm) ==
  /\ Running(s) /\ pc[s] = "loop" /\ state[s] = followerState
  /\ currentTerm[s] < maxTerm
  /\ Put(timeout(View(s)))
  /\ goroutines' = [goroutines EXCEPT ![s] = Spawn(s, "RV")]
  /\ UNCHANGED <<cluster, status, pc, calls, applied, applyCalls, crashes, leaders, committed>>

\* Server.timeout in the candidate branch, the election deadline passed
CandidateTimeout(s, maxTerm) ==
  /\ Running(s) /\ pc[s] = "loop" /\ state[s] = candidateState
  /\ currentTerm[s] < maxTerm
  /\ Put(timeout(View(s)))
  /\ goroutines' = [goroutines EXCEPT ![s] = Spawn(s, "RV")]
  /\ pc' = [pc EXCEPT ![s] = "becomeLeader"]
  /\ UNCHANGED <<cluster, status, calls, applied, applyCalls, crashes, leaders, committed>>

\* Server.timeout in the candidate branch, the deadline not passed
CandidateWait(s) ==
  /\ Running(s) /\ pc[s] = "loop" /\ state[s] = candidateState
  /\ pc' = [pc EXCEPT ![s] = "becomeLeader"]
  /\ UNCHANGED <<cluster, status, state, currentTerm, votedFor, log, commitIndex,
                 lastApplied, nextIndex, matchIndex, goroutines, calls, disk, applied,
                 applyCalls, crashes, leaders, committed>>

\* Server.becomeLeader, called by the candidate branch of the driver loop
BecomeLeader(s) ==
  /\ Running(s) /\ pc[s] = "becomeLeader"
  /\ LET sv == becomeLeader(View(s), cluster[s])
     IN /\ Len(sv.log) <= MaxLog
        /\ Put(sv)
        /\ leaders' = IF sv.state = leaderState /\ Len(sv.log) > Len(log[s])
                      THEN leaders \cup {<<sv.currentTerm, s>>} ELSE leaders
  /\ pc' = [pc EXCEPT ![s] = "loop"]
  /\ UNCHANGED <<cluster, status, goroutines, calls, applied, applyCalls, crashes, committed>>

\* the entries the second half of advanceCommitIndex applies
ToApply(sv) == (sv.lastApplied + 1)..sv.commitIndex

\* the sinks advanceCommitIndex signals: entries with a command and a channel
Delivered(l, idx) == {At(l, i).result : i \in {j \in idx : At(l, j).Command # <<>>
                                                          /\ At(l, j).result # <<>>}}

\* the commands advanceCommitIndex passes to the state machine, in order
RECURSIVE Commands(_, _, _)
Commands(l, from, to) ==
  IF from > to THEN <<>>
  ELSE (IF At(l, from).Command # <<>> THEN <<<<from, At(l, from).Command>>>> ELSE <<>>)
       \o Commands(l, from + 1, to)

\* Server.advanceCommitIndex, called by the leader and follower branches
\* (in any state: timeout may just have made the follower a candidate).
\* Reading s.log[s.lastApplied] past the end of the log panics.
AdvanceCommitIndex(s) ==
  /\ Running(s) /\ pc[s] = "loop"
  /\ LET sv0 == View(s)
         ci == NewCommitIndex(sv0, cluster[s])
         sv == advanceCommitIndex(sv0, cluster[s])
     IN IF \E i \in (sv0.lastApplied + 1)..ci : i >= Len(sv0.log)
        THEN Die(s) /\ UNCHANGED crashes
        ELSE /\ Put(sv)
             /\ applied' = [applied EXCEPT ![s] = @ \o Commands(sv0.log, sv0.lastApplied + 1, ci)]
             /\ applyCalls' =
                  [k \in 1..Len(applyCalls) |->
                     [applyCalls[k] EXCEPT !.got =
                        @ \cup {r[2] : r \in {d \in Delivered(sv0.log, (sv0.lastApplied + 1)..ci) :
                                                d[1] = k}}]]
             /\ committed' = committed \cup
                  {[index |-> i, Term |-> At(sv0.log, i).Term, Command |-> At(sv0.log, i).Command,
                    by |-> sv0.currentTerm] : i \in (sv0.commitIndex + 1)..(IF sv0.state = leaderState THEN ci ELSE sv0.commitIndex)}
             /\ UNCHANGED <<cluster, status, pc, goroutines, calls, crashes, leaders>>

(***************************************************************************)
(* RPC calls.  A call is the goroutine's request; once the receiver's      *)
(* handler has run it carries the response back.  rpcCall has no timeout   *)
(* of its own: a call stays outstanding until it is answered or fails.     *)
(***************************************************************************)
Call(kind, from, to, term, lli, llt, pli, plt, entries, lc) ==
  [kind |-> kind, from |-> from, to |-> to, phase |-> "req", orphan |-> FALSE,
   Term |-> term, CandidateId |-> from, LastLogIndex |-> lli, LastLogTerm |-> llt,
   PrevLogIndex |-> pli, PrevLogTerm |-> plt, Entries |-> entries, LeaderCommit |-> lc,
   rspTerm |-> 0, ok |-> FALSE]

\* the request a requestVote goroutine builds
RequestVoteRequest(sv, p) ==
  Call("RV", sv.id, p, sv.currentTerm, Len(sv.log) - 1, At(sv.log, Len(sv.log) - 1).Term,
       0, 0, <<>>, 0)

\* entries[:limit], the cut of a request's entries at a batch limit
BatchWithin(entries, limit) ==
  IF Len(entries) > limit THEN Prefix(entries, limit) ELSE entries

\* entries[:MAX_APPEND_ENTRIES_BATCH]
Batch(entries) == BatchWithin(entries, MAX_APPEND_ENTRIES_BATCH)

\* the request an appendEntries goroutine builds when the batch limit is limit
AppendEntriesRequestWithin(sv, p, limit) ==
  LET next == sv.nextIndex[p]
      prevLogIndex == next - 1
      entries == IF Len(sv.log) - 1 >= next
                 THEN [k \in 1..(Len(sv.log) - next) |-> Wire(At(sv.log, next + k - 1))]
                 ELSE <<>>
  IN Call("AE", sv.id, p, sv.currentTerm, 0, 0, prevLogIndex,
          At(sv.log, prevLogIndex).Term, BatchWithin(entries, limit), sv.commitIndex)

\* the request an appendEntries goroutine builds
AppendEntriesRequest(sv, p) == AppendEntriesRequestWithin(sv, p, MAX_APPEND_ENTRIES_BATCH)

\* a requestVote goroutine takes the lock, builds its request and sends it
SendRequestVote(s, p) ==
  /\ Running(s) /\ <<"RV", p>> \in goroutines[s]
  /\ Cardinality(calls) < MaxInFlight
  /\ goroutines' = [goroutines EXCEPT ![s] = @ \ {<<"RV", p>>}]
  /\ calls' = calls \cup {RequestVoteRequest(View(s), p)}
  /\ UNCHANGED <<cluster, status, state, currentTerm, votedFor, log, commitIndex,
                 lastApplied, nextIndex, matchIndex, pc, disk, applied, applyCalls,
                 crashes, leaders, committed>>

\* an appendEntries goroutine takes the lock, builds its request and sends
\* it.  prevLogIndex is nextIndex - 1 in uint64: s.log[prevLogIndex] panics
\* when nextIndex is 0 (the index wraps) or past the end of the log.
SendAppendEntriesWithin(s, p, limit) ==
  /\ Running(s) /\ <<"AE", p>> \in goroutines[s]
  /\ IF nextIndex[s][p] = 0 \/ nextIndex[s][p] - 1 >= Len(log[s])
     THEN Die(s) /\ UNCHANGED crashes
     ELSE /\ Cardinality(calls) < MaxInFlight
          /\ goroutines' = [goroutines EXCEPT ![s] = @ \ {<<"AE", p>>}]
          /\ calls' = calls \cup {AppendEntriesRequestWithin(View(s), p, limit)}
          /\ UNCHANGED <<cluster, status, state, currentTerm, votedFor, log, commitIndex,
                         lastApplied, nextIndex, matchIndex, pc, disk, applied, applyCalls,
                         crashes, leaders, committed>>

\* the goroutine with the limit of the build
SendAppendEntries(s, p) == SendAppendEntriesWithin(s, p, MAX_APPEND_ENTRIES_BATCH)

\* rpcCall fails before the request leaves (no connection): the goroutine returns
DialFails(s, g) ==
  /\ Running(s) /\ g \in goroutines[s]
  /\ g[1] = "RV" \/ (nextIndex[s][g[2]] > 0 /\ nextIndex[s][g[2]] - 1 < Len(log[s]))
  /\ goroutines' = [goroutines EXCEPT ![s] = @ \ {g}]
  /\ UNCHANGED <<cluster, status, state, currentTerm, votedFor, log, commitIndex,
                 lastApplied, nextIndex, matchIndex, pc, calls, disk, applied, applyCalls,
                 crashes, leaders, committed>>

\* rpcCall fails with the request or the response on its way
CallFails(c) ==
  /\ c \in calls
  /\ calls' = calls \ {c}
  /\ UNCHANGED <<cluster, status, state, currentTerm, votedFor, log, commitIndex,
                 lastApplied, nextIndex, matchIndex, pc, goroutines, disk, applied,
                 applyCalls, crashes, leaders, committed>>

\* the call after the handler has answered
Answered(c, r) ==
  IF c.orphan THEN calls \ {c}
  ELSE (calls \ {c}) \cup {[c EXCEPT !.phase = "rsp", !.rspTerm = r.Term, !.ok = r.ok]}

\* the receiver serves a RequestVote request
RecvRequestVote(c) ==
  /\ c \in calls /\ c.kind = "RV" /\ c.phase = "req" /\ Running(c.to)
  /\ LET r == HandleRequestVoteRequest(View(c.to), c)
     IN Put(r.sv) /\ calls' = Answered(c, r)
  /\ UNCHANGED <<cluster, status, pc, goroutines, applied, applyCalls, crashes,
                 leaders, committed>>

\* the receiver serves an AppendEntries request
RecvAppendEntries(c) ==
  /\ c \in calls /\ c.kind = "AE" /\ c.phase = "req" /\ Running(c.to)
  /\ LET r == HandleAppendEntriesRequest(View(c.to), c)
     IN Put(r.sv) /\ calls' = Answered(c, r)
  /\ UNCHANGED <<cluster, status, pc, goroutines, applied, applyCalls, crashes,
                 leaders, committed>>

\* the requestVote goroutine after rpcCall returned the response
OnRequestVoteResponse(sv0, c) ==
  LET sv == updateTerm(sv0, c.rspTerm)
  IN IF c.rspTerm > sv0.currentTerm THEN sv
     ELSE IF c.rspTerm = c.Term /\ c.ok THEN [sv EXCEPT !.votedFor[c.to] = sv.id]
     ELSE sv

\* the appendEntries goroutine after rpcCall returned the response
\* (nextIndex is at least 1 wherever such a goroutine has sent a request)
OnAppendEntriesResponse(sv0, c) ==
  LET sv == updateTerm(sv0, c.rspTerm)
      next == max(c.PrevLogIndex + Len(c.Entries) + 1, 1)
  IN IF c.rspTerm > sv0.currentTerm THEN sv
     ELSE IF c.ok THEN [sv EXCEPT !.nextIndex[c.to] = next, !.matchIndex[c.to] = next - 1]
     ELSE [sv EXCEPT !.nextIndex[c.to] = max(sv.nextIndex[c.to] - 1, 1)]

RecvRequestVoteResponse(c) ==
  /\ c \in calls /\ c.kind = "RV" /\ c.phase = "rsp" /\ Running(c.from)
  /\ Put(OnRequestVoteResponse(View(c.from), c))
  /\ calls' = calls \ {c}
  /\ UNCHANGED <<cluster, status, pc, goroutines, applied, applyCalls, crashes,
                 leaders, committed>>

RecvAppendEntriesResponse(c) ==
  /\ c \in calls /\ c.kind = "AE" /\ c.phase = "rsp" /\ Running(c.from)
  /\ Put(OnAppendEntriesResponse(View(c.from), c))
  /\ calls' = calls \ {c}
  /\ UNCHANGED <<cluster, status, pc, goroutines, applied, applyCalls, crashes,
                 leaders, committed>>

(***************************************************************************)
(* The client entry point.                                                  *)
(***************************************************************************)
\* the entries Apply appends for call number id
NewEntries(term, commands, id) ==
  [k \in 1..Len(commands) |-> [Term |-> term, Command |-> commands[k], result |-> <<id, k>>]]

\* Server.Apply on the leader, up to the wait for the results
ApplyAppend(sv, commands, id) ==
  Persisted([sv EXCEPT !.log = sv.log \o NewEntries(sv.currentTerm, commands, id)],
            TRUE, Len(commands))

\* some command of the batch is longer than the payload area of a slot
TooLarge(commands) ==
  \E i \in 1..Len(commands) : Len(commands[i]) > ENTRY_SIZE - ENTRY_HEADER

\* Server.Apply on the leader; maxLog bounds the length of the log
ApplyWithin(s, commands, maxLog) ==
  /\ Running(s) /\ state[s] = leaderState
  /\ ~TooLarge(commands)
  /\ Len(applyCalls) < MaxApplyCalls
  /\ Len(log[s]) + Len(commands) <= maxLog
  /\ Put(ApplyAppend(View(s), commands, Len(applyCalls) + 1))
  /\ applyCalls' = Append(applyCalls,
                          [srv |-> s, first |-> Len(log[s]), commands |-> commands,
                           got |-> {}, status |-> "waiting"])
  /\ goroutines' = [goroutines EXCEPT ![s] = Spawn(s, "AE")]
  /\ UNCHANGED <<cluster, status, pc, calls, applied, crashes, leaders, committed>>

Apply(s, commands) == ApplyWithin(s, commands, MaxLog)

\* Server.Apply on the leader with a command that does not fit a slot: the
\* entries are appended, persist writes the page and panics.  Apply holds
\* the lock without a deferred unlock: the panic ends the process, or, when
\* the caller recovers it, leaves the lock held for ever; either way the
\* server does nothing more until it is started again.
ApplyTooLarge(s, commands) ==
  /\ Running(s) /\ state[s] = leaderState
  /\ Len(applyCalls) < MaxApplyCalls
  /\ TooLarge(commands)
  /\ disk' = [disk EXCEPT ![s] =
               persistPanicked(disk[s], currentTerm[s], getVotedFor(View(s)),
                               log[s] \o NewEntries(currentTerm[s], commands,
                                                    Len(applyCalls) + 1))]
  /\ Gone(s)
  /\ UNCHANGED <<cluster, crashes, leaders, committed>>

\* an Apply that appends and replicates before it looks at the role
ApplyBeforeRoleCheck(s, commands) ==
  /\ Running(s) /\ state[s] # leaderState
  /\ Len(applyCalls) < MaxApplyCalls
  /\ Len(log[s]) + Len(commands) <= MaxLog
  /\ Put(ApplyAppend(View(s), commands, Len(applyCalls) + 1))
  /\ applyCalls' = Append(applyCalls,
                          [srv |-> s, first |-> Len(log[s]), commands |-> commands,
                           got |-> {}, status |-> "ErrApplyToLeader"])
  /\ goroutines' = [goroutines EXCEPT ![s] = Spawn(s, "AE")]
  /\ UNCHANGED <<cluster, status, pc, calls, applied, crashes, leaders, committed>>

\* Server.Apply on a server that is not leader: ErrApplyToLeader at once
ApplyToFollower(s, commands) ==
  /\ Running(s) /\ state[s] # leaderState
  /\ Len(applyCalls) < MaxApplyCalls
  /\ applyCalls' = Append(applyCalls,
                          [srv |-> s, first |-> 0, commands |-> commands,
                           got |-> {}, status |-> "ErrApplyToLeader"])
  /\ UNCHANGED <<cluster, status, state, currentTerm, votedFor, log, commitIndex,
                 lastApplied, nextIndex, matchIndex, pc, goroutines, calls, disk, applied,
                 crashes, leaders, committed>>

\* wg.Wait() is over: every result channel has been read
ApplyReturn(k) ==
  /\ k \in 1..Len(applyCalls)
  /\ applyCalls[k].status = "waiting"
  /\ applyCalls[k].got = 1..Len(applyCalls[k].commands)
  /\ applyCalls' = [applyCalls EXCEPT ![k].status = "returned"]
  /\ UNCHANGED <<cluster, status, state, currentTerm, votedFor, log, commitIndex,
                 lastApplied, nextIndex, matchIndex, pc, goroutines, calls, disk, applied,
                 crashes, leaders, committed>>

(***************************************************************************)
(* Crash and restart.                                                       *)
(***************************************************************************)
Crash(s) ==
  /\ Running(s)
  /\ crashes < MaxCrashes
  /\ crashes' = crashes + 1
  /\ Die(s)

\* NewServer and Start on the file the last process left
Restart(s) ==
  /\ s \in cluster[s] /\ status[s] = "crashed"
  /\ LET r == restore(disk[s])
     IN IF r.ok
        THEN /\ status' = [status EXCEPT ![s] = "running"]
             /\ currentTerm' = [currentTerm EXCEPT ![s] = r.currentTerm]
             /\ votedFor' = [votedFor EXCEPT ![s][s] = r.votedFor]
             /\ log' = [log EXCEPT ![s] = r.log]
        ELSE /\ status' = [status EXCEPT ![s] = "failed"]
             /\ UNCHANGED <<currentTerm, votedFor, log>>
  /\ UNCHANGED <<cluster, state, commitIndex, lastApplied, nextIndex, matchIndex, pc,
                 goroutines, calls, disk, applied, applyCalls, crashes, leaders, committed>>

Next ==
  \/ \E s \in Servers : Heartbeat(s)
  \/ \E s \in Servers : FollowerTimeout(s, MaxTerm)
  \/ \E s \in Servers : CandidateTimeout(s, MaxTerm)
  \/ \E s \in Servers : CandidateWait(s)
  \/ \E s \in Servers : BecomeLeader(s)
  \/ \E s \in Servers : AdvanceCommitIndex(s)
  \/ \E s \in Servers : \E p \in Servers \ {s} : SendRequestVote(s, p)
  \/ \E s \in Servers : \E p \in Servers \ {s} : SendAppendEntries(s, p)
  \/ \E s \in Servers : \E g \in goroutines[s] : DialFails(s, g)
  \/ \E c \in calls : CallFails(c)
  \/ \E c \in calls : RecvRequestVote(c)
  \/ \E c \in calls : RecvAppendEntries(c)
  \/ \E c \in calls : RecvRequestVoteResponse(c)
  \/ \E c \in calls : RecvAppendEntriesResponse(c)
  \/ \E s \in Servers : \E cmd \in Cmds : Apply(s, <<cmd>>)
  \/ \E k \in 1..MaxApplyCalls : ApplyReturn(k)
  \/ \E s \in Servers : Crash(s)
  \/ \E s \in Servers : Restart(s)

Spec == Init /\ [][Next]_vars

(***************************************************************************)
(* Elections alone: servers 1 and 2 time out, server 3 only votes.         *)
(***************************************************************************)
Candidates == {1, 2}

ElectionLinks == {<<1, 2>>, <<1, 3>>, <<2, 1>>, <<2, 3>>}

NextElection ==
  \/ \E s \in Candidates : FollowerTimeout(s, MaxTerm)
  \/ \E s \in Candidates : CandidateTimeout(s, MaxTerm)
  \/ \E s \in Candidates : CandidateWait(s)
  \/ \E s \in Candidates : BecomeLeader(s)
  \/ \E l \in ElectionLinks : SendRequestVote(l[1], l[2])
  \/ \E c \in calls : RecvRequestVote(c)
  \/ \E c \in calls : RecvRequestVoteResponse(c)

SpecElection == Init /\ [][NextElection]_vars

\* C1: election safety -- no two different servers ever become leader with
\* the same currentTerm.  `leaders` holds <<term, server>> for every
\* completed becomeLeader.
ElectionSafety ==
  \A a, b \in leaders : a[1] = b[1] => a[2] = b[2]

(***************************************************************************)
(* Elections with a process crash and restart: server 1 stands, the        *)
(* others vote; any server may be killed and started again.                *)
(***************************************************************************)
NextCrash ==
  \/ FollowerTimeout(1, MaxTerm)
  \/ CandidateTimeout(1, MaxTerm)
  \/ CandidateWait(1)
  \/ BecomeLeader(1)
  \/ \E p \in Peers(1) : SendRequestVote(1, p)
  \/ \E g \in goroutines[1] : DialFails(1, g)
  \/ \E c \in calls : CallFails(c)
  \/ \E c \in calls : RecvRequestVote(c)
  \/ \E c \in calls : RecvRequestVoteResponse(c)
  \/ \E s \in Servers : Crash(s)
  \/ \E s \in Servers : Restart(s)

SpecCrash == Init /\ [][NextCrash]_vars

\* what a server holds that persist writes
Durable(s) ==
  [currentTerm |-> currentTerm[s], votedFor |-> votedFor[s][s],
   log |-> [i \in 1..Len(log[s]) |-> Wire(log[s][i])]]

\* what restore makes of the file of s
Restored(s) ==
  LET r == restore(disk[s])
  IN [currentTerm |-> r.currentTerm, votedFor |-> r.votedFor,
      log |-> [i \in 1..Len(r.log) |-> Wire(r.log[i])]]

\* C6: durability round trip -- once persist has returned on a running
\* server, restore on its file succeeds and yields the server's currentTerm,
\* votedFor and log (term and command at every index); no restart fails.
DurabilityRoundTrip ==
  \A s \in Servers :
     /\ status[s] # "failed"
     /\ (Running(s) /\ disk[s] # EmptyFile) =>
           (restore(disk[s]).ok /\ Restored(s) = Durable(s))

\* C7: one vote per term, also across crash and restart -- while a server
\* stays in a term its recorded vote does not change to another candidate,
\* and a server restarted on a file that records a vote for candidate C in
\* term T comes up with currentTerm = T and votedFor = C.
OneVotePerTerm ==
  [][\A s \in Servers :
       /\ (Running(s) /\ status'[s] = "running" /\ currentTerm'[s] = currentTerm[s]
             /\ votedFor[s][s] # 0) => votedFor'[s][s] = votedFor[s][s]
       /\ (status[s] = "crashed" /\ status'[s] # "crashed" /\ disk[s] # EmptyFile
             /\ Uint64(disk[s].page[2]) \notin {0, s}) =>
             /\ status'[s] = "running"
             /\ currentTerm'[s] = Uint64(disk[s].page[1])
             /\ votedFor'[s][s] = Uint64(disk[s].page[2])]_vars

(***************************************************************************)
(* A deposed leader.  Server 1 wins the first term, server 2 the next one  *)
(* with the vote of server 3; server 2 serves one client command.  One RPC *)
(* is outstanding at a time.                                               *)
(***************************************************************************)
OverwriteVoteLinks == {<<1, 3>>, <<2, 3>>, <<2, 1>>}

OverwriteAppendLinks == {<<1, 3>>, <<2, 3>>}

\* at most n calls are outstanding after the step
Outstanding(n) == Cardinality(calls') <= n

NextOverwrite ==
  \/ FollowerTimeout(1, MaxTerm - 1)
  \/ FollowerTimeout(2, MaxTerm)
  \/ CandidateTimeout(2, MaxTerm)
  \/ \E s \in Candidates : CandidateWait(s)
  \/ \E s \in Candidates : BecomeLeader(s)
  \/ \E s \in Candidates : Heartbeat(s)
  \/ \E s \in Servers : AdvanceCommitIndex(s)
  \/ \E l \in OverwriteVoteLinks : SendRequestVote(l[1], l[2]) /\ Outstanding(1)
  \/ \E l \in OverwriteAppendLinks : SendAppendEntries(l[1], l[2]) /\ Outstanding(1)
  \/ \E c \in calls : RecvRequestVote(c)
  \/ \E c \in calls : RecvRequestVoteResponse(c)
  \/ \E c \in calls : RecvAppendEntries(c)
  \/ \E c \in calls : RecvAppendEntriesResponse(c)
  \/ \E cmd \in Cmds : Apply(2, <<cmd>>)
  \/ \E k \in 1..MaxApplyCalls : ApplyReturn(k)

SpecOverwrite == Init /\ [][NextOverwrite]_vars

\* C2: a server never overwrites or deletes a log entry at an index up to
\* its commitIndex -- over every step of a running server, each index of its
\* log that is <= commitIndex is still in the log afterwards with the same
\* term and command.
NoCommittedTruncation ==
  [][\A s \in Servers :
       (Running(s) /\ status'[s] = "running") =>
          \A i \in 0..commitIndex[s] :
             i < Len(log[s]) =>
                (i < Len(log'[s]) /\ Wire(At(log'[s], i)) = Wire(At(log[s], i)))]_vars

\* C10: on every running server 0 <= lastApplied <= commitIndex <=
\* lastLogIndex.
CommitOrder ==
  \A s \in Servers :
     Running(s) =>
        /\ 0 <= lastApplied[s]
        /\ lastApplied[s] <= commitIndex[s]
        /\ commitIndex[s] <= Len(log[s]) - 1

(***************************************************************************)
(* Two candidates and two clients.  Servers 1 and 2 stand for election     *)
(* and replicate to server 3; a client sends command a to server 1,        *)
(* another sends command b to server 2.  Everything happens within one     *)
(* heartbeat interval: entries go out with the goroutines Apply starts.    *)
(***************************************************************************)
ClientLinks == {<<1, 3>>, <<2, 3>>}

\* the command the client of server s sends
CommandOf(s) == IF s = 1 THEN <<97>> ELSE <<98>>

NextClients ==
  \/ \E s \in Candidates : FollowerTimeout(s, MaxTerm)
  \/ \E s \in Candidates : CandidateTimeout(s, MaxTerm)
  \/ \E s \in Candidates : CandidateWait(s)
  \/ \E s \in Candidates : BecomeLeader(s)
  \/ \E s \in Candidates : AdvanceCommitIndex(s)
  \/ \E l \in ClientLinks : SendRequestVote(l[1], l[2])
  \/ \E l \in ClientLinks : SendAppendEntries(l[1], l[2])
  \/ \E c \in calls : RecvRequestVote(c)
  \/ \E c \in calls : RecvRequestVoteResponse(c)
  \/ \E c \in calls : RecvAppendEntries(c)
  \/ \E c \in calls : RecvAppendEntriesResponse(c)
  \/ \E s \in Candidates : Apply(s, <<CommandOf(s)>>)
  \/ \E k \in 1..MaxApplyCalls : ApplyReturn(k)

SpecClients == Init /\ [][NextClients]_vars

\* C4: log matching -- if two servers' logs hold an entry of the same term
\* at an index, the logs are identical (term and command) at every index up
\* to it.
LogMatching ==
  \A s1, s2 \in Servers :
     (Running(s1) /\ Running(s2)) =>
        \A i \in 0..(min(Len(log[s1]), Len(log[s2])) - 1) :
           At(log[s1], i).Term = At(log[s2], i).Term =>
              \A j \in 0..i : Wire(At(log[s1], j)) = Wire(At(log[s2], j))

\* C3: state-machine safety -- the commands delivered to the state machines
\* of any two servers are one a prefix of the other (so all are prefixes of
\* one sequence), and on each server they are delivered at strictly
\* increasing log indices (so at most once per index).
StateMachineSafety ==
  /\ \A s1, s2 \in Servers :
        \A k \in 1..min(Len(applied[s1]), Len(applied[s2])) :
           applied[s1][k] = applied[s2][k]
  /\ \A s \in Servers :
        \A k \in 1..(Len(applied[s]) - 1) : applied[s][k][1] < applied[s][k + 1][1]

(***************************************************************************)
(* A late vote.  Server 1 leads term 2 and serves one client command;      *)
(* server 2 keeps standing for election, up to one term further, and once  *)
(* elected sends its heartbeat to server 1.                                *)
(***************************************************************************)
LateVoteLinks == {<<1, 3>>, <<2, 3>>}

LateAppendLinks == {<<1, 3>>, <<2, 1>>}

NextLateVote ==
  \/ FollowerTimeout(1, MaxTerm)
  \/ CandidateTimeout(1, MaxTerm)
  \/ FollowerTimeout(2, MaxTerm + 1)
  \/ CandidateTimeout(2, MaxTerm + 1)
  \/ \E s \in Candidates : CandidateWait(s)
  \/ \E s \in Candidates : BecomeLeader(s)
  \/ Heartbeat(2)
  \/ \E s \in Candidates : AdvanceCommitIndex(s)
  \/ \E l \in LateVoteLinks : SendRequestVote(l[1], l[2])
  \/ \E l \in LateAppendLinks : SendAppendEntries(l[1], l[2])
  \/ \E c \in calls : RecvRequestVote(c)
  \/ \E c \in calls : RecvRequestVoteResponse(c)
  \/ \E c \in calls : RecvAppendEntries(c)
  \/ \E c \in calls : RecvAppendEntriesResponse(c)
  \/ Apply(1, <<CommandOf(1)>>)
  \/ \E k \in 1..MaxApplyCalls : ApplyReturn(k)

SpecLateVote == Init /\ [][NextLateVote]_vars

\* C5: leader completeness -- an entry a leader committed in term T is in
\* the log of every leader of a later term, at the same index with the same
\* term and command.  `committed` holds the entries leaders have committed,
\* with the term they were committed in.
LeaderCompleteness ==
  \A e \in committed : \A s \in Servers :
     (Running(s) /\ state[s] = leaderState /\ currentTerm[s] > e.by) =>
        /\ e.index < Len(log[s])
        /\ At(log[s], e.index).Term = e.Term
        /\ At(log[s], e.index).Command = e.Command

\* C8: a successful Apply return implies commit and local application --
\* when Apply returns its results, the server's log holds the commands at
\* consecutive indices, all <= commitIndex and <= lastApplied, and each
\* non-empty one has been passed to the state machine exactly once.
ApplyImpliesApplied ==
  [][\A k \in 1..Len(applyCalls) :
       (applyCalls[k].status = "waiting" /\ applyCalls'[k].status = "returned") =>
          LET c == applyCalls[k]
              s == c.srv
          IN \A j \in 1..Len(c.commands) :
                LET i == c.first + j - 1
                IN /\ i < Len(log[s])
                   /\ At(log[s], i).Command = c.commands[j]
                   /\ i <= commitIndex[s]
                   /\ i <= lastApplied[s]
                   /\ c.commands[j] # <<>> =>
                        Cardinality({n \in 1..Len(applied[s]) : applied[s][n][1] = i}) = 1]_vars

(***************************************************************************)
(* A late acknowledgement.  Server 1 leads term 1, is deposed by server    *)
(* 2's election and stands again two terms later; its AppendEntries to     *)
(* server 2 may be answered at any time.                                   *)
(***************************************************************************)
LateAckVoteLinks == {<<1, 3>>, <<2, 1>>}

NextLateAck ==
  \/ FollowerTimeout(1, MaxTerm + 1)
  \/ FollowerTimeout(2, MaxTerm)
  \/ \E s \in Candidates : CandidateWait(s)
  \/ \E s \in Candidates : BecomeLeader(s)
  \/ Heartbeat(1)
  \/ AdvanceCommitIndex(1)
  \/ \E l \in LateAckVoteLinks : SendRequestVote(l[1], l[2])
  \/ SendAppendEntries(1, 2)
  \/ \E c \in calls : RecvRequestVote(c)
  \/ \E c \in calls : RecvRequestVoteResponse(c)
  \/ \E c \in calls : RecvAppendEntries(c)
  \/ \E c \in calls : RecvAppendEntriesResponse(c)

SpecLateAck == Init /\ [][NextLateAck]_vars

\* itself plus the peers whose matchIndex is at least i are a majority
MajorityMatch(s, i) ==
  2 * Cardinality({s} \cup {p \in cluster[s] \ {s} : matchIndex[s][p] >= i}) > Cardinality(cluster[s])

NextService ==
  \/ FollowerTimeout(1, MaxTerm)
  \/ CandidateTimeout(1, MaxTerm)
  \/ CandidateWait(1)
  \/ BecomeLeader(1)
  \/ Heartbeat(1)
  \/ \E s \in Candidates : AdvanceCommitIndex(s)
  \/ SendRequestVote(1, 2) /\ Outstanding(1)
  \/ SendAppendEntries(1, 2) /\ Outstanding(1)
  \/ \E c \in calls : RecvRequestVote(c)
  \/ \E c \in calls : RecvRequestVoteResponse(c)
  \/ \E c \in calls : RecvAppendEntries(c)
  \/ \E c \in calls : RecvAppendEntriesResponse(c)
  \/ Apply(1, <<CommandOf(1)>>)
  \/ \E s \in Candidates : ApplyToFollower(s, <<CommandOf(2)>>)
  \/ \E k \in 1..MaxApplyCalls : ApplyReturn(k)

SpecService == Init /\ [][NextService]_vars

\* the call Apply has just answered with the not-leader error, if any
Refused(k) ==
  /\ Len(applyCalls') = k /\ Len(applyCalls) = k - 1
  /\ applyCalls'[k].status = "ErrApplyToLeader"

\* C11: Apply on a server that is not leader returns the not-leader error
\* at once and changes nothing -- the server is not leader, and over the
\* step its log, currentTerm, commitIndex, per-peer indices and file are
\* unchanged, no goroutine is started and no RPC is sent.
ApplyNotLeaderNoEffect ==
  [][\A k \in 1..MaxApplyCalls :
       Refused(k) =>
          /\ state[applyCalls'[k].srv] # leaderState
          /\ UNCHANGED <<log, currentTerm, state, votedFor, commitIndex, lastApplied,
                         nextIndex, matchIndex, disk, goroutines, calls, applied>>]_vars

\* a refused Apply on a follower that holds replicated entries, next to a
\* call the leader is still serving
ApplyNotLeaderReached ==
  \E k \in 1..Len(applyCalls) :
     /\ applyCalls[k].status = "ErrApplyToLeader"
     /\ Len(log[applyCalls[k].srv]) > 1
     /\ \E j \in 1..Len(applyCalls) : applyCalls[j].status = "waiting"

(***************************************************************************)
(* A stable leader with a reachable quorum.  Server 1 is the only          *)
(* candidate, so once elected it remains leader; servers 1 and 2 are a     *)
(* quorum and every RPC between them is delivered and answered.  The       *)
(* driver loop keeps running (heartbeat, advanceCommitIndex), goroutines   *)
(* get the lock, and a client calls Apply with a command that may be       *)
(* empty.                                                                  *)
(***************************************************************************)
\* the commands the client may send: one byte, or none
ClientCmds == {<<97>>, <<>>}

NextStable ==
  \/ FollowerTimeout(1, MaxTerm)
  \/ CandidateTimeout(1, MaxTerm)
  \/ CandidateWait(1)
  \/ BecomeLeader(1)
  \/ Heartbeat(1)
  \/ \E s \in Candidates : AdvanceCommitIndex(s)
  \/ SendRequestVote(1, 2)
  \/ SendAppendEntries(1, 2)
  \/ \E c \in calls : RecvRequestVote(c)
  \/ \E c \in calls : RecvRequestVoteResponse(c)
  \/ \E c \in calls : RecvAppendEntries(c)
  \/ \E c \in calls : RecvAppendEntriesResponse(c)
  \/ \E cmd \in ClientCmds : Apply(1, <<cmd>>)
  \/ \E k \in 1..MaxApplyCalls : ApplyReturn(k)

\* an AppendEntries request that the server it is addressed to can handle
Deliverable ==
  \E c \in calls : c.kind = "AE" /\ c.phase = "req" /\ Running(c.to)

\* the loop iterates, goroutines run, the network delivers, wg.Wait wakes up.
\* The fourth conjunct is weak fairness of RecvAppendEntries, written with
\* its enabling condition Deliverable.
FairStable ==
  /\ WF_vars(Heartbeat(1))
  /\ WF_vars(\E s \in Candidates : AdvanceCommitIndex(s))
  /\ WF_vars(SendAppendEntries(1, 2))
  /\ ([]<>(~Deliverable) \/ []<><<\E c \in calls : RecvAppendEntries(c)>>_vars)
  /\ WF_vars(\E c \in calls : RecvAppendEntriesResponse(c))
  /\ WF_vars(\E k \in 1..MaxApplyCalls : ApplyReturn(k))

SpecStable == Init /\ [][NextStable]_vars /\ FairStable

\* call k is blocked in wg.Wait
Waiting(k) == Len(applyCalls) >= k /\ applyCalls[k].status = "waiting"

\* call k has returned its results
Returned(k) == Len(applyCalls) >= k /\ applyCalls[k].status = "returned"

\* C12: on a server that remains leader and reaches a quorum, every Apply
\* call eventually returns, with one result per command (ApplyReturn needs
\* the result of each command of the call, stored at the command's place).
ApplyEventuallyReturns ==
  \A k \in 1..MaxApplyCalls : Waiting(k) ~> Returned(k)

(***************************************************************************)
(* Three servers, no failure: server 1 is the only one whose election      *)
(* timer fires, it reaches both peers, and a client hands it the batch     *)
(* [a, b, c] in one Apply call.                                            *)
(***************************************************************************)
HappyLinks == {<<1, 2>>, <<1, 3>>}

Batch3 == <<<<97>>, <<98>>, <<99>>>>

NextHappy ==
  \/ FollowerTimeout(1, MaxTerm)
  \/ CandidateTimeout(1, MaxTerm)
  \/ CandidateWait(1)
  \/ BecomeLeader(1)
  \/ Heartbeat(1)
  \/ \E s \in Servers : AdvanceCommitIndex(s)
  \/ \E l \in HappyLinks : SendRequestVote(l[1], l[2]) /\ Outstanding(1)
  \/ \E l \in HappyLinks : SendAppendEntries(l[1], l[2]) /\ Outstanding(1)
  \/ \E c \in calls : RecvRequestVote(c)
  \/ \E c \in calls : RecvRequestVoteResponse(c)
  \/ \E c \in calls : RecvAppendEntries(c)
  \/ \E c \in calls : RecvAppendEntriesResponse(c)
  \/ ApplyWithin(1, Batch3, MaxBatchLog)
  \/ \E k \in 1..MaxApplyCalls : ApplyReturn(k)

SpecHappy == Init /\ [][NextHappy]_vars

\* the index of the last command of call k
LastOf(k) == applyCalls[k].first + Len(applyCalls[k].commands) - 1

\* server f's log holds the commands of call k, in order, at the indices
\* where the server that took the call appended them
Holds(f, k) ==
  \A i \in 1..Len(applyCalls[k].commands) :
    /\ applyCalls[k].first + i - 1 < Len(log[f])
    /\ At(log[f], applyCalls[k].first + i - 1).Command = applyCalls[k].commands[i]

\* an AppendEntries of the leader of call k that carries a commitIndex
\* covering the call (as every heartbeat after the return does) and that
\* its receiver has accepted
AcceptedHeartbeats(k) ==
  {c \in calls : /\ c.kind = "AE" /\ c.phase = "rsp" /\ c.ok
                 /\ c.from = applyCalls[k].srv /\ c.LeaderCommit >= LastOf(k)}

\* C13 as stated: when Apply([a,b,c]) has returned, every follower's log
\* holds a, b, c at the leader's three indices, and a follower that has
\* accepted a subsequent heartbeat has commitIndex >= the index of c.
HappyPathEveryFollower ==
  \A k \in 1..Len(applyCalls) : Returned(k) =>
    /\ \A f \in Servers : Holds(f, k)
    /\ \A c \in AcceptedHeartbeats(k) : commitIndex[c.to] >= LastOf(k)

\* C13 amended: when Apply([a,b,c]) has returned, the leader's log and the
\* log of at least one follower hold a, b, c at the same three indices, and
\* every follower that has accepted a subsequent heartbeat holds them too
\* and has commitIndex >= the index of c.
HappyPathQuorum ==
  \A k \in 1..Len(applyCalls) : Returned(k) =>
    /\ Holds(applyCalls[k].srv, k)
    /\ \E f \in Servers \ {applyCalls[k].srv} : Holds(f, k)
    /\ \A c \in AcceptedHeartbeats(k) : Holds(c.to, k) /\ commitIndex[c.to] >= LastOf(k)

\* the batch has returned, a follower has accepted a heartbeat after it, and
\* all three servers hold and have committed a, b, c
HappyPathReached ==
  /\ Len(applyCalls) >= 1 /\ Returned(1) /\ applyCalls[1].commands = Batch3
  /\ AcceptedHeartbeats(1) # {}
  /\ \A f \in Servers : Holds(f, 1) /\ commitIndex[f] >= LastOf(1)

(***************************************************************************)
(* The leader dies.  Server 1 is elected by server 2 and may replicate to  *)
(* it; it is killed while it leads.  From then on the election timers of   *)
(* servers 2 and 3 fire, they reach each other, and a client hands one     *)
(* command to whichever of them leads.  The timers are random in the       *)
(* program; here each stops firing at the server's last term, server 3's   *)
(* first.                                                                  *)
(***************************************************************************)
Survivors == {2, 3}

SurvivorLinks == {<<2, 3>>, <<3, 2>>}

\* the last term in which the election timer of s fires
LastTerm(s) == IF s = 2 THEN MaxTerm + 1 ELSE MaxTerm - 1

LeaderKilled == status[1] = "crashed"

NextFailover ==
  \/ FollowerTimeout(1, MaxTerm - 1)
  \/ CandidateWait(1)
  \/ BecomeLeader(1)
  \/ Heartbeat(1)
  \/ SendRequestVote(1, 2) /\ Outstanding(1)
  \/ SendAppendEntries(1, 2) /\ Outstanding(1)
  \/ Crash(1) /\ state[1] = leaderState
  \/ \E s \in Survivors : LeaderKilled /\ FollowerTimeout(s, LastTerm(s))
  \/ \E s \in Survivors : LeaderKilled /\ CandidateTimeout(s, LastTerm(s))
  \/ \E s \in Survivors : CandidateWait(s)
  \/ \E s \in Survivors : BecomeLeader(s)
  \/ \E s \in Survivors : Heartbeat(s)
  \/ \E s \in Survivors : AdvanceCommitIndex(s)
  \/ \E l \in SurvivorLinks : SendRequestVote(l[1], l[2]) /\ Outstanding(1)
  \/ \E l \in SurvivorLinks : SendAppendEntries(l[1], l[2]) /\ Outstanding(1)
  \/ \E c \in calls : RecvRequestVote(c)
  \/ \E c \in calls : RecvRequestVoteResponse(c)
  \/ \E c \in calls : RecvAppendEntries(c)
  \/ \E c \in calls : RecvAppendEntriesResponse(c)
  \/ \E s \in Survivors : applyCalls = <<>> /\ ApplyWithin(s, <<CommandOf(s)>>, MaxLog + 1)
  \/ \E k \in 1..MaxApplyCalls : ApplyReturn(k)

SpecFailoverSafe == Init /\ [][NextFailover]_vars

\* the election deadline of survivor s can pass
TimerRuns(s, st) ==
  /\ LeaderKilled /\ Running(s) /\ pc[s] = "loop" /\ state[s] = st
  /\ currentTerm[s] < LastTerm(s)

\* server s is about to count its votes
Counting(s) ==
  /\ Running(s) /\ pc[s] = "becomeLeader"
  /\ Votes(View(s), cluster[s]) >= Quorum(Cardinality(cluster[s])) => Len(log[s]) < MaxLog

\* a request of the given kind that its receiver can handle
Arrived(kind) == \E c \in calls : c.kind = kind /\ c.phase = "req" /\ Running(c.to)

\* a response of the given kind that its sender is waiting for
Answer(kind) == \E c \in calls : c.kind = kind /\ c.phase = "rsp" /\ Running(c.from)

\* Scheduling of the program: the driver loops iterate and their deadlines
\* pass (a candidate that stays candidate times out again), goroutines run,
\* the network delivers between running servers, wg.Wait wakes up.  Where
\* the enabling condition of an action is one of the predicates above, weak
\* fairness is written []<>~enabled \/ []<><<action>> and strong fairness
\* <>[]~enabled \/ []<><<action>>.
FairFailover ==
  /\ WF_vars(FollowerTimeout(1, MaxTerm - 1))
  /\ WF_vars(CandidateWait(1))
  /\ ([]<>(~Counting(1)) \/ []<><<BecomeLeader(1)>>_vars)
  /\ WF_vars(SendRequestVote(1, 2) /\ Outstanding(1))
  /\ \A s \in Survivors :
       /\ ([]<>(~TimerRuns(s, followerState))
             \/ []<><<LeaderKilled /\ FollowerTimeout(s, LastTerm(s))>>_vars)
       /\ (<>[](~TimerRuns(s, candidateState))
             \/ []<><<LeaderKilled /\ CandidateTimeout(s, LastTerm(s))>>_vars)
       /\ WF_vars(CandidateWait(s))
       /\ ([]<>(~Counting(s)) \/ []<><<BecomeLeader(s)>>_vars)
  /\ WF_vars(\E s \in Survivors : Heartbeat(s))
  /\ WF_vars(\E s \in Survivors : AdvanceCommitIndex(s))
  /\ WF_vars(\E l \in SurvivorLinks : SendRequestVote(l[1], l[2]) /\ Outstanding(1))
  /\ WF_vars(\E l \in SurvivorLinks : SendAppendEntries(l[1], l[2]) /\ Outstanding(1))
  /\ ([]<>(~Arrived("RV")) \/ []<><<\E c \in calls : RecvRequestVote(c)>>_vars)
  /\ ([]<>(~Answer("RV")) \/ []<><<\E c \in calls : RecvRequestVoteResponse(c)>>_vars)
  /\ ([]<>(~Arrived("AE")) \/ []<><<\E c \in calls : RecvAppendEntries(c)>>_vars)
  /\ ([]<>(~Answer("AE")) \/ []<><<\E c \in calls : RecvAppendEntriesResponse(c)>>_vars)
  /\ WF_vars(\E k \in 1..MaxApplyCalls : ApplyReturn(k))

SpecFailover == Init /\ [][NextFailover]_vars /\ FairFailover

\* a survivor has been elected
SurvivorElected == \E l \in leaders : l[2] \in Survivors

\* the server that took call k no longer leads
Deposed(k) == Len(applyCalls) >= k /\ state[applyCalls[k].srv] # leaderState

Conflicts(l, c) ==
  {k \in 1..Len(c.Entries) :
     c.PrevLogIndex + k < Len(l) /\ At(l, c.PrevLogIndex + k).Term # c.Entries[k].Term}

\* request c is answered with success in this step
Accepts(c) ==
  /\ c \in calls /\ c.kind = "AE" /\ c.phase = "req"
  /\ [c EXCEPT !.phase = "rsp", !.ok = TRUE, !.rspTerm = currentTerm'[c.to]] \in calls'

\* C15: when a server accepts an AppendEntries whose entries conflict in
\* term with its log from some index on, then afterwards its log from that
\* index on is exactly the request's entries: each is at its index, and the
\* log ends with the request's last entry, so none of the old suffix remains.
SuffixReplaced ==
  [][\A c \in calls : (Accepts(c) /\ Conflicts(log[c.to], c) # {}) =>
        /\ Len(log'[c.to]) = c.PrevLogIndex + Len(c.Entries) + 1
        /\ \A k \in 1..Len(c.Entries) :
             (\E j \in Conflicts(log[c.to], c) : j <= k) =>
               /\ At(log'[c.to], c.PrevLogIndex + k).Term = c.Entries[k].Term
               /\ At(log'[c.to], c.PrevLogIndex + k).Command = c.Entries[k].Command]_vars

\* server 1 took a command as leader at an index that was never committed;
\* it has since accepted entries of another term covering that index, and
\* the command is no longer in its log
SuffixReplacedReached ==
  \E k \in 1..Len(applyCalls) : \E c \in calls :
    /\ applyCalls[k].srv = 1
    /\ \A m \in committed : m.index # applyCalls[k].first
    /\ c.kind = "AE" /\ c.phase = "rsp" /\ c.ok /\ c.to = 1
    /\ c.PrevLogIndex < applyCalls[k].first
    /\ applyCalls[k].first <= c.PrevLogIndex + Len(c.Entries)
    /\ Len(log[1]) = c.PrevLogIndex + Len(c.Entries) + 1
    /\ At(log[1], applyCalls[k].first).Command # applyCalls[k].commands[1]

(***************************************************************************)
(* A cluster of one: server 1 was constructed with itself as the only      *)
(* member (the other ids are not in use).  Clients hand it commands one at *)
(* a time.                                                                 *)
(***************************************************************************)
InitSingle ==
  /\ cluster = [s \in Servers |-> {1}]
  /\ status = [s \in Servers |-> IF s = 1 THEN "running" ELSE "crashed"]
  /\ state = [s \in Servers |-> followerState]
  /\ currentTerm = [s \in Servers |-> 0]
  /\ votedFor = [s \in Servers |-> [i \in Servers |-> 0]]
  /\ log = [s \in Servers |-> IF s = 1 THEN <<Sentinel>> ELSE <<>>]
  /\ commitIndex = [s \in Servers |-> 0]
  /\ lastApplied = [s \in Servers |-> 0]
  /\ nextIndex = [s \in Servers |-> [i \in Servers |-> 0]]
  /\ matchIndex = [s \in Servers |-> [i \in Servers |-> 0]]
  /\ pc = [s \in Servers |-> "loop"]
  /\ goroutines = [s \in Servers |-> {}]
  /\ calls = {}
  /\ disk = [s \in Servers |-> EmptyFile]
  /\ applied = [s \in Servers |-> <<>>]
  /\ applyCalls = <<>>
  /\ crashes = 0
  /\ leaders = {}
  /\ committed = {}

NextSingle ==
  \/ FollowerTimeout(1, MaxTerm + 1)
  \/ CandidateTimeout(1, MaxTerm + 1)
  \/ CandidateWait(1)
  \/ BecomeLeader(1)
  \/ AdvanceCommitIndex(1)
  \/ \E cmd \in Cmds : ApplyWithin(1, <<cmd>>, MaxLog + 1)
  \/ \E cmd \in Cmds : ApplyToFollower(1, <<cmd>>)
  \/ \E k \in 1..MaxApplyCalls : ApplyReturn(k)

SpecSingle == InitSingle /\ [][NextSingle]_vars

\* how many times the state machine of s has received the entry at index i
TimesApplied(s, i) == Cardinality({n \in 1..Len(applied[s]) : applied[s][n][1] = i})

\* C16: in a cluster of one the server exchanges no message and becomes
\* leader on its own vote; when its first Apply([x]) has returned its log is
\* [sentinel, no-op of its term, x] as long as no other command is taken,
\* and for every returned call the command is at its index, committed, and
\* the state machine has received it exactly once.
SingleNodeCommit ==
  /\ calls = {} /\ goroutines[1] = {}
  /\ state[1] = leaderState => Votes(View(1), cluster[1]) = 1
  /\ (Len(applyCalls) = 1 /\ Returned(1)) =>
        /\ Len(log[1]) = 3
        /\ At(log[1], 1) = [Term |-> currentTerm[1], Command |-> <<>>, result |-> <<>>]
        /\ At(log[1], 2).Term = currentTerm[1]
        /\ commitIndex[1] = 2
  /\ \A k \in 1..Len(applyCalls) : Returned(k) =>
        /\ At(log[1], applyCalls[k].first).Command = applyCalls[k].commands[1]
        /\ commitIndex[1] >= applyCalls[k].first
        /\ TimesApplied(1, applyCalls[k].first) = 1
        /\ \E n \in 1..Len(applied[1]) :
             applied[1][n] = <<applyCalls[k].first, applyCalls[k].commands[1]>>

\* the single server leads and its first Apply([x]) has returned
SingleNodeReached ==
  /\ cluster[1] = {1} /\ state[1] = leaderState
  /\ Len(applyCalls) = 1 /\ Returned(1)
  /\ Len(log[1]) = 3 /\ commitIndex[1] = 2 /\ Len(applied[1]) = 1

(***************************************************************************)
(* The size limit of a command, on the one-member cluster: clients hand    *)
(* the leader commands of 112 and of 113 bytes; the process may be killed  *)
(* and is started again.                                                   *)
(***************************************************************************)
Bytes(n) == [i \in 1..n |-> 120]

LimitCmds == {Bytes(ENTRY_SIZE - ENTRY_HEADER), Bytes(ENTRY_SIZE - ENTRY_HEADER + 1)}

NextLimit ==
  \/ FollowerTimeout(1, MaxTerm)
  \/ CandidateWait(1)
  \/ BecomeLeader(1)
  \/ AdvanceCommitIndex(1)
  \/ \E cmd \in LimitCmds : ApplyWithin(1, <<cmd>>, MaxLog + 1)
  \/ \E cmd \in LimitCmds : ApplyTooLarge(1, <<cmd>>)
  \/ \E k \in 1..MaxApplyCalls : ApplyReturn(k)
  \/ Crash(1)
  \/ Restart(1)

SpecLimit == InitSingle /\ [][NextLimit]_vars

\* C17: an Apply with a command longer than 112 bytes leaves the log, the
\* page and the slots as they were and the server running; a command of
\* exactly 112 bytes is appended and the file restores to the log with it.
OversizeRefused ==
  [][\A cmd \in LimitCmds :
       /\ ApplyTooLarge(1, <<cmd>>) =>
            log'[1] = log[1] /\ disk'[1] = disk[1] /\ status'[1] = "running"
       /\ ApplyWithin(1, <<cmd>>, MaxLog + 1) =>
            /\ Len(cmd) = ENTRY_SIZE - ENTRY_HEADER
            /\ At(log'[1], Len(log[1])).Command = cmd
            /\ restore(disk'[1]).ok
            /\ restore(disk'[1]).log = [i \in 1..Len(log'[1]) |-> Wire(log'[1][i])]]_vars

(***************************************************************************)
(* Start-up through main: before it constructs the server, main dials each *)
(* configured peer; when none answers it replaces the configured list by   *)
(* the server alone, and only then constructs the server and listens.  No  *)
(* process runs at first; servers 1 and 2 are started in any order, also   *)
(* at the same time, their timers fire, they reach each other, and clients *)
(* hand commands to whichever leads.                                       *)
(***************************************************************************)
InitDown ==
  /\ cluster = [s \in Servers |-> Servers]
  /\ status = [s \in Servers |-> "crashed"]
  /\ state = [s \in Servers |-> followerState]
  /\ currentTerm = [s \in Servers |-> 0]
  /\ votedFor = [s \in Servers |-> [i \in Servers |-> 0]]
  /\ log = [s \in Servers |-> <<>>]
  /\ commitIndex = [s \in Servers |-> 0]
  /\ lastApplied = [s \in Servers |-> 0]
  /\ nextIndex = [s \in Servers |-> [i \in Servers |-> 0]]
  /\ matchIndex = [s \in Servers |-> [i \in Servers |-> 0]]
  /\ pc = [s \in Servers |-> "loop"]
  /\ goroutines = [s \in Servers |-> {}]
  /\ calls = {}
  /\ disk = [s \in Servers |-> EmptyFile]
  /\ applied = [s \in Servers |-> <<>>]
  /\ applyCalls = <<>>
  /\ crashes = 0
  /\ leaders = {}
  /\ committed = {}

\* the peers whose address accepts a connection
Reachable(s) == {p \in Servers \ {s} : status[p] = "running"}

\* main up to NewServer: the probe of the peers and the list it leaves
MainProbe(s) ==
  /\ status[s] = "crashed"
  /\ cluster' = [cluster EXCEPT ![s] = IF Reachable(s) = {} THEN {s} ELSE Servers]
  /\ status' = [status EXCEPT ![s] = "probed"]
  /\ UNCHANGED <<state, currentTerm, votedFor, log, commitIndex, lastApplied, nextIndex,
                 matchIndex, pc, goroutines, calls, disk, applied, applyCalls, crashes,
                 leaders, committed>>

\* main from NewServer on: Start restores the file and listens
MainStart(s) ==
  /\ status[s] = "probed"
  /\ LET r == restore(disk[s])
     IN IF r.ok
        THEN /\ status' = [status EXCEPT ![s] = "running"]
             /\ currentTerm' = [currentTerm EXCEPT ![s] = r.currentTerm]
             /\ votedFor' = [votedFor EXCEPT ![s][s] = r.votedFor]
             /\ log' = [log EXCEPT ![s] = r.log]
        ELSE /\ status' = [status EXCEPT ![s] = "failed"]
             /\ UNCHANGED <<currentTerm, votedFor, log>>
  /\ UNCHANGED <<cluster, state, commitIndex, lastApplied, nextIndex, matchIndex, pc,
                 goroutines, calls, disk, applied, applyCalls, crashes, leaders, committed>>

StartupLinks == {<<1, 2>>, <<2, 1>>}

NextStartup ==
  \/ \E s \in Candidates : MainProbe(s)
  \/ \E s \in Candidates : MainStart(s)
  \/ \E s \in Candidates : FollowerTimeout(s, MaxTerm)
  \/ \E s \in Candidates : CandidateTimeout(s, MaxTerm)
  \/ \E s \in Candidates : CandidateWait(s)
  \/ \E s \in Candidates : BecomeLeader(s)
  \/ \E s \in Candidates : AdvanceCommitIndex(s)
  \/ \E l \in StartupLinks : SendRequestVote(l[1], l[2]) /\ Outstanding(1)
  \/ \E c \in calls : RecvRequestVote(c)
  \/ \E c \in calls : RecvRequestVoteResponse(c)
  \/ \E s \in Candidates : Apply(s, <<CommandOf(s)>>)
  \/ \E k \in 1..MaxApplyCalls : ApplyReturn(k)

SpecStartup == InitDown /\ [][NextStartup]_vars

\* C18: every running server has the full configured list, so that a commit
\* takes a quorum of the configured servers and no two servers commit
\* different entries at one index, each on its own.
ConfiguredCluster ==
  /\ \A s \in Servers : Running(s) => cluster[s] = Servers
  /\ \A m, n \in committed :
       m.index = n.index => (m.Term = n.Term /\ m.Command = n.Command)

(***************************************************************************)
(* The term of a server over its whole life, in the environment of         *)
(* SpecCrash: while the process runs it is s.currentTerm, while it is down *)
(* it is the term restore will read from the page.                         *)
(***************************************************************************)
TermOf(s) ==
  IF Running(s) THEN currentTerm[s]
  ELSE IF Len(disk[s].page) = 0 THEN 0 ELSE Uint64(disk[s].page[1])

\* C19: the term of a server never decreases, in any step: a handler of an
\* RPC or of a response, an election timeout, a kill, a restart.
TermNeverDecreases ==
  [][\A s \in Servers : TermOf(s)' >= TermOf(s)]_vars

\* server 1 was leader, has been killed and started again, and runs in the
\* term it had
TermRestored ==
  /\ crashes = 1 /\ Running(1) /\ state[1] = followerState
  /\ \E l \in leaders : l[2] = 1 /\ l[1] = currentTerm[1]
  /\ currentTerm[1] >= 1 /\ Len(log[1]) = 2

(***************************************************************************)
(* The file-metadata state machine of the service (DFSStateMachine): the   *)
(* commands are the bytes encodeCommand writes, the map is the set of its  *)
(* entries (path, name, size; the modification time is the local clock's). *)
(* In the environment of SpecClients the clients of servers 1 and 2 each   *)
(* create a file.                                                          *)
(***************************************************************************)
CreateFile == 0

DeleteFile == 1

RenameFile == 2

\* binary.Write of a uint64, little endian: all eight bytes
Le64(n) == Area(PutUint64(n), 8)

\* the eight bytes of uint64(n) for an int64 n: two's complement
Bytes64(n) == IF n >= 0 THEN Le64(n) ELSE [i \in 1..8 |-> 255 - Le64(-n - 1)[i]]

\* int64(v) for the uint64 v the eight bytes b hold
Int64(b) == IF b[8] >= 128 THEN -Uint64([i \in 1..8 |-> 255 - b[i]]) - 1 ELSE Uint64(b)

\* an encodeCommand that writes the new path before the old one
encodeCommandSwapped(c) ==
  <<c.Kind>> \o Le64(Len(c.Path)) \o c.Path \o Le64(Len(c.NewPath)) \o c.NewPath
            \o Le64(Len(c.OldPath)) \o c.OldPath \o Bytes64(c.Size)

\* encodeCommand
encodeCommand(c) ==
  <<c.Kind>> \o Le64(Len(c.Path)) \o c.Path \o Le64(Len(c.OldPath)) \o c.OldPath
            \o Le64(Len(c.NewPath)) \o c.NewPath \o Bytes64(c.Size)

\* buf.Next(n): the bytes taken
Taken(buf, n) == Prefix(buf, min(n, Len(buf)))

\* buf.Next(n): the bytes left
Left(buf, n) == Suffix(buf, min(n, Len(buf)))

\* binary.Read of a uint64: the value stays 0 when fewer than 8 bytes are left
Read64(buf) == IF Len(buf) >= 8 THEN Uint64(Prefix(buf, 8)) ELSE 0

\* decodeCommand (of a nonempty message)
decodeCommand(msg) ==
  LET b1 == Left(msg, 1)
      pathLen == Read64(b1)
      b2 == Left(b1, 8)
      b3 == Left(b2, pathLen)
      oldPathLen == Read64(b3)
      b4 == Left(b3, 8)
      b5 == Left(b4, oldPathLen)
      newPathLen == Read64(b5)
      b6 == Left(b5, 8)
      b7 == Left(b6, newPathLen)
  IN [Kind |-> msg[1], Path |-> Taken(b2, pathLen), OldPath |-> Taken(b4, oldPathLen),
      NewPath |-> Taken(b6, newPathLen),
      Size |-> IF Len(b7) >= 8 THEN Int64(Prefix(b7, 8)) ELSE 0]

\* files.Store(path, &File{Name: path, Size: size})
Store(files, path, size) ==
  {f \in files : f.path # path} \cup {[path |-> path, Name |-> path, Size |-> size]}

\* files.Delete(path)
Delete(files, path) == {f \in files : f.path # path}

\* DFSStateMachine.Apply: the map after the command
ApplyFile(files, cmd) ==
  LET c == decodeCommand(cmd)
  IN IF c.Kind = CreateFile THEN Store(files, c.Path, c.Size)
     ELSE IF c.Kind = DeleteFile THEN Delete(files, c.Path)
     ELSE IF c.Kind = RenameFile THEN Store(Delete(files, c.OldPath), c.NewPath, c.Size)
     ELSE files

\* the map after the first n commands the state machine of s has received
RECURSIVE FilesAfter(_, _)
FilesAfter(s, n) ==
  IF n = 0 THEN {} ELSE ApplyFile(FilesAfter(s, n - 1), applied[s][n][2])

Files(s) == FilesAfter(s, Len(applied[s]))

\* the upload the client of server s sends: a file of its own name and size
UploadOf(s) ==
  encodeCommand([Kind |-> CreateFile, Path |-> <<96 + s>>, OldPath |-> <<>>,
                 NewPath |-> <<>>, Size |-> s])

NextFiles ==
  \/ \E s \in Candidates : FollowerTimeout(s, MaxTerm)
  \/ \E s \in Candidates : CandidateTimeout(s, MaxTerm)
  \/ \E s \in Candidates : CandidateWait(s)
  \/ \E s \in Candidates : BecomeLeader(s)
  \/ \E s \in Candidates : AdvanceCommitIndex(s)
  \/ \E l \in ClientLinks : SendRequestVote(l[1], l[2])
  \/ \E l \in ClientLinks : SendAppendEntries(l[1], l[2])
  \/ \E c \in calls : RecvRequestVote(c)
  \/ \E c \in calls : RecvRequestVoteResponse(c)
  \/ \E c \in calls : RecvAppendEntries(c)
  \/ \E c \in calls : RecvAppendEntriesResponse(c)
  \/ \E s \in Candidates : Apply(s, <<UploadOf(s)>>)
  \/ \E k \in 1..MaxApplyCalls : ApplyReturn(k)

SpecFiles == Init /\ [][NextFiles]_vars

\* C20: any two running servers with the same lastApplied hold maps with
\* the same paths and the same name and size for each path.
MetadataAgree ==
  \A s, t \in Servers :
    (Running(s) /\ Running(t) /\ lastApplied[s] = lastApplied[t]) => Files(s) = Files(t)

(***************************************************************************)
(* A replaced entry and a restart.  Server 1 leads term 1 with the vote of *)
(* server 3; server 2 wins term 2 and replicates its no-op entry to server *)
(* 1, which holds the no-op entry of term 1 at that index.  Any server may *)
(* be killed and started again on the file it left.                        *)
(***************************************************************************)
ReplaceVoteLinks == {<<1, 3>>, <<2, 3>>}

NextReplace ==
  \/ FollowerTimeout(1, MaxTerm - 1)
  \/ FollowerTimeout(2, MaxTerm)
  \/ CandidateTimeout(2, MaxTerm)
  \/ \E s \in Candidates : CandidateWait(s)
  \/ \E s \in Candidates : BecomeLeader(s)
  \/ Heartbeat(2)
  \/ \E l \in ReplaceVoteLinks : SendRequestVote(l[1], l[2])
  \/ SendAppendEntries(2, 1)
  \/ \E c \in calls : RecvRequestVote(c)
  \/ \E c \in calls : RecvRequestVoteResponse(c)
  \/ \E c \in calls : RecvAppendEntries(c)
  \/ \E c \in calls : RecvAppendEntriesResponse(c)
  \/ \E s \in Servers : Crash(s)
  \/ \E s \in Servers : Restart(s)

SpecReplace == Init /\ [][NextReplace]_vars

\* C21: index 0 of the log of every running server is the sentinel (term 0,
\* empty command), so the log is never empty; a server that has never
\* written its file (a fresh start) has lastLogIndex = 0; and whatever
\* restore reads from a file a server has left has the sentinel at index 0.
SentinelKept ==
  \A s \in Servers :
     /\ Running(s) =>
          /\ Len(log[s]) >= 1
          /\ At(log[s], 0).Term = 0 /\ At(log[s], 0).Command = <<>>
          /\ disk[s] = EmptyFile => Len(log[s]) - 1 = 0
     /\ restore(disk[s]).ok =>
          /\ Len(restore(disk[s]).log) >= 1
          /\ At(restore(disk[s]).log, 0).Term = 0
          /\ At(restore(disk[s]).log, 0).Command = <<>>

\* server 1 has led term 1 (its no-op entry was at index 1), has been
\* started again since (its per-peer indices are those of a new process) and
\* now holds the entry of term 2 at index 1
SentinelKeptReached ==
  /\ Running(1) /\ <<1, 1>> \in leaders
  /\ nextIndex[1][1] = 0
  /\ Len(log[1]) = 2 /\ At(log[1], 1).Term = 2
  /\ disk[1] # EmptyFile

(***************************************************************************)
(* The command encoding through the log.  A cluster of one member; a       *)
(* client hands the leader the encoding of one command, which is appended, *)
(* committed and passed to the state machine, where it is decoded.         *)
(***************************************************************************)
\* the strings of a command: empty, one byte, two bytes (one of them zero)
CodecStrings == {<<>>, <<97>>, <<0, 98>>}

\* the commands encoded: every kind and an unknown tag, every combination
\* of the strings, sizes with one, two and four significant bytes and
\* negative ones
CodecCmds ==
  [Kind : {CreateFile, DeleteFile, RenameFile, 255}, Path : CodecStrings,
   OldPath : CodecStrings, NewPath : CodecStrings,
   Size : {0, 1, 300, 2147483647, -1, -256}]

NextCodec ==
  \/ FollowerTimeout(1, MaxTerm - 1)
  \/ CandidateWait(1)
  \/ BecomeLeader(1)
  \/ AdvanceCommitIndex(1)
  \/ \E c \in CodecCmds : Apply(1, <<encodeCommand(c)>>)
  \/ \E k \in 1..MaxApplyCalls : ApplyReturn(k)

SpecCodec == InitSingle /\ [][NextCodec]_vars

\* C22: decodeCommand(encodeCommand(c)) = c -- whatever command c the bytes
\* passed to the state machine are the encoding of, decoding them gives c
\* (kind, the three strings and the size).
CodecRoundTrip ==
  \A s \in Servers : \A n \in 1..Len(applied[s]) : \A c \in CodecCmds :
     applied[s][n][2] = encodeCommand(c) => decodeCommand(applied[s][n][2]) = c

\* the state machine has received the encoding of a rename with an empty
\* old path, a new path that holds a zero byte and a negative size
CodecRoundTripReached ==
  \E n \in 1..Len(applied[1]) :
     applied[1][n][2] = encodeCommand([Kind |-> RenameFile, Path |-> <<97>>, OldPath |-> <<>>,
                                       NewPath |-> <<0, 98>>, Size |-> -256])

\* server s takes the leader role in the step
TakesLead(s) == Running(s) /\ state[s] # leaderState /\ state'[s] = leaderState

\* C23: a server enters the leader role in term T only if it is a candidate
\* in term T at that moment and a quorum of distinct servers, itself
\* included, granted it their vote for term T -- it holds its own vote, and
\* every peer it counts has reached term T and, while still in T, records
\* its vote for this server; a vote granted for an earlier term is not
\* counted.
LeaderByQuorum ==
  [][\A s \in Servers :
       TakesLead(s) =>
          /\ state[s] = candidateState
          /\ currentTerm'[s] = currentTerm[s]
          /\ votedFor[s][s] = s
          /\ Votes(View(s), cluster[s]) >= Quorum(Cardinality(cluster[s]))
          /\ \A p \in Peers(s) :
                (votedFor[s][p] = s /\ Running(p)) =>
                   /\ currentTerm[p] >= currentTerm[s]
                   /\ currentTerm[p] = currentTerm[s] => votedFor[p][p] = s]_vars

\* the goroutine of call c processes the response in the step
Processes(c) ==
  /\ c \in calls /\ c.phase = "rsp" /\ c \notin calls'
  /\ Running(c.from) /\ status'[c.from] = "running"

\* the role whose goroutines send calls of this kind
RoleOf(kind) == IF kind = "RV" THEN candidateState ELSE leaderState

\* C24: a response is processed only for the term it belongs to -- a
\* RequestVote or AppendEntries response changes the sender's tally of the
\* peers' votes, nextIndex[p] or matchIndex[p] only if the sender's
\* currentTerm is still the term the request was sent in and the sender
\* still holds the role that sent it.
ResponseOfItsTerm ==
  [][\A c \in calls :
       (/\ Processes(c)
        /\ \/ \E p \in Peers(c.from) : votedFor'[c.from][p] # votedFor[c.from][p]
           \/ nextIndex'[c.from] # nextIndex[c.from]
           \/ matchIndex'[c.from] # matchIndex[c.from]) =>
          /\ currentTerm[c.from] = c.Term
          /\ state[c.from] = RoleOf(c.kind)]_vars

\* C25: every AppendEntries request is built by a server that is in the
\* leader role, and carries that server's currentTerm, at the moment the
\* request is built; a server that has stepped down since the broadcast was
\* scheduled sends nothing.
RequestBuiltByLeader ==
  [][\A c \in calls' \ calls :
       (c.kind = "AE" /\ c.phase = "req") =>
          /\ state[c.from] = leaderState
          /\ c.Term = currentTerm[c.from]]_vars

\* the transitions between roles the design lists
RoleTransitions ==
  {<<followerState, candidateState>>, <<candidateState, followerState>>,
   <<candidateState, leaderState>>, <<leaderState, followerState>>}

\* C26: every server starts as follower and changes its role only along
\* follower -> candidate, candidate -> follower, candidate -> leader and
\* leader -> follower; a server that a handler has made follower does not
\* become leader without becoming candidate again first.
RolesFollowTransitions ==
  /\ \A s \in Servers : state[s] = followerState
  /\ [][\A s \in Servers :
          (Running(s) /\ status'[s] = "running" /\ state'[s] # state[s]) =>
             <<state[s], state'[s]>> \in RoleTransitions]_vars

\* the handler of the server c is addressed to serves the request in the step
Serves(c) ==
  /\ c \in calls /\ c.phase = "req" /\ Running(c.to)
  /\ \E d \in calls' \ calls :
        /\ d.phase = "rsp" /\ [d EXCEPT !.phase = "req", !.rspTerm = 0, !.ok = FALSE] = c
        /\ calls' = (calls \ {c}) \cup {d}

\* the response the handler gave to request c
ResponseTo(c) ==
  CHOOSE d \in calls' \ calls : d.phase = "rsp" /\ [d EXCEPT !.phase = "req", !.rspTerm = 0, !.ok = FALSE] = c

\* the page of the file of r holds the term and the vote r has after the step
PageWritten(r) ==
  /\ disk'[r] # EmptyFile
  /\ disk'[r].page[1] = PutUint64(currentTerm'[r])
  /\ disk'[r].page[2] = PutUint64(votedFor'[r][r])

\* C27: the term rule, where every call is answered -- a request or a
\* response whose term is greater than currentTerm leaves the server in
\* that term, as follower, with its vote cleared (or given, by the handler
\* of that RequestVote, to its candidate) and the page written; the response
\* to such a request carries the new term, and such a response changes
\* nothing else.  A message of the server's own term does not clear the vote,
\* and no message lowers the term.
TermRule ==
  [][\A c \in calls :
       /\ Serves(c) =>
            LET r == c.to
            IN /\ c.Term > currentTerm[r] =>
                    /\ currentTerm'[r] = c.Term /\ state'[r] = followerState
                    /\ votedFor'[r][r] \in (IF c.kind = "RV" THEN {0, c.CandidateId} ELSE {0})
                    /\ PageWritten(r)
                    /\ ResponseTo(c).rspTerm = c.Term
               /\ c.Term = currentTerm[r] =>
                    (votedFor[r][r] # 0 => votedFor'[r][r] = votedFor[r][r])
               /\ c.Term <= currentTerm[r] => currentTerm'[r] = currentTerm[r]
       /\ Processes(c) =>
            LET r == c.from
            IN /\ c.rspTerm > currentTerm[r] =>
                    /\ currentTerm'[r] = c.rspTerm /\ state'[r] = followerState
                    /\ votedFor'[r][r] = 0
                    /\ PageWritten(r)
                    /\ \A p \in Peers(r) : votedFor'[r][p] = votedFor[r][p]
                    /\ UNCHANGED <<log, commitIndex, lastApplied, nextIndex, matchIndex>>
               /\ c.rspTerm = currentTerm[r] => votedFor'[r][r] = votedFor[r][r]
               /\ c.rspTerm <= currentTerm[r] => currentTerm'[r] = currentTerm[r]]_vars

\* a leader of an earlier term has been made follower of a later term by
\* the rule: its vote is clear and its page holds the later term
TermRuleReached ==
  \E s \in Servers : \E l \in leaders :
     /\ l[2] = s /\ Running(s) /\ currentTerm[s] > l[1]
     /\ state[s] = followerState /\ votedFor[s][s] = 0
     /\ disk[s].page[1] = PutUint64(currentTerm[s])

(***************************************************************************)
(* Voters with logs of different lengths.  Server 1 wins term 1, serves    *)
(* one client command and replicates to both peers, each of which may have *)
(* received nothing, the no-op entry, or the command as well; server 2     *)
(* then stands for term 2 and, once elected, replicates to server 3.  One  *)
(* RPC is outstanding at a time.                                           *)
(***************************************************************************)
NextVotes ==
  \/ FollowerTimeout(1, MaxTerm - 1)
  \/ FollowerTimeout(2, MaxTerm)
  \/ CandidateTimeout(2, MaxTerm)
  \/ \E s \in Candidates : CandidateWait(s)
  \/ \E s \in Candidates : BecomeLeader(s)
  \/ \E s \in Candidates : Heartbeat(s)
  \/ \E s \in Servers : AdvanceCommitIndex(s)
  \/ \E l \in {<<1, 3>>, <<2, 1>>, <<2, 3>>} : SendRequestVote(l[1], l[2]) /\ Outstanding(1)
  \/ \E l \in {<<1, 2>>, <<1, 3>>, <<2, 3>>} : SendAppendEntries(l[1], l[2]) /\ Outstanding(1)
  \/ \E c \in calls : RecvRequestVote(c)
  \/ \E c \in calls : RecvRequestVoteResponse(c)
  \/ \E c \in calls : RecvAppendEntries(c)
  \/ \E c \in calls : RecvAppendEntriesResponse(c)
  \/ Apply(1, <<CommandOf(1)>>)
  \/ \E k \in 1..MaxApplyCalls : ApplyReturn(k)

SpecVotes == Init /\ [][NextVotes]_vars

\* C28: after the term rule a RequestVote is granted iff the request's term
\* is the server's term, the server's vote is unset or already the
\* candidate's, and the candidate's log is at least as up to date as the
\* server's (greater last term, or the same last term and a last index not
\* smaller); a grant records the vote and writes the page, a refusal leaves
\* the vote as the term rule left it.
VoteGrantRule ==
  [][\A c \in calls :
       (Serves(c) /\ c.kind = "RV") =>
          LET r == c.to
              vote == IF c.Term > currentTerm[r] THEN 0 ELSE votedFor[r][r]
              lastIndex == Len(log[r]) - 1
              lastTerm == At(log[r], lastIndex).Term
              upToDate == \/ c.LastLogTerm > lastTerm
                          \/ (c.LastLogTerm = lastTerm /\ c.LastLogIndex >= lastIndex)
              granted == ResponseTo(c).ok
          IN /\ granted <=> (/\ c.Term = currentTerm'[r]
                             /\ vote \in {0, c.CandidateId}
                             /\ upToDate)
             /\ granted => (votedFor'[r][r] = c.CandidateId /\ PageWritten(r))
             /\ ~granted => votedFor'[r][r] = vote
             /\ ResponseTo(c).rspTerm = currentTerm'[r]]_vars

\* a server that has not voted in the request's term has refused a
\* candidate whose log ends in the same term as its own, but earlier
VoteGrantRuleReached ==
  \E c \in calls :
     /\ c.kind = "RV" /\ c.phase = "rsp" /\ ~c.ok /\ c.rspTerm = c.Term
     /\ Running(c.to) /\ currentTerm[c.to] = c.Term /\ votedFor[c.to][c.to] = 0
     /\ c.LastLogTerm = At(log[c.to], Len(log[c.to]) - 1).Term
     /\ c.LastLogIndex < Len(log[c.to]) - 1

\* the consistency check of request c against the log of the server it is
\* addressed to, as the log is before the step
Consistent(c) ==
  \/ c.PrevLogIndex = 0
  \/ (c.PrevLogIndex < Len(log[c.to]) /\ At(log[c.to], c.PrevLogIndex).Term = c.PrevLogTerm)

\* C29: an AppendEntries request whose term is at least the receiver's and
\* whose receiver is not leader is answered success = true iff prevLogIndex
\* is 0, or prevLogIndex is within the receiver's log and the entry there
\* has term prevLogTerm; the receiver, also a candidate of the same term, is
\* follower of the request's term afterwards.
AppendAcceptRule ==
  [][\A c \in calls :
       (Serves(c) /\ c.kind = "AE" /\ c.Term >= currentTerm[c.to]
          /\ state[c.to] # leaderState) =>
          /\ ResponseTo(c).ok <=> Consistent(c)
          /\ state'[c.to] = followerState
          /\ currentTerm'[c.to] = c.Term
          /\ ResponseTo(c).rspTerm = c.Term]_vars

\* a request with prevLogIndex > 0 has been refused by a follower of its
\* term that holds an entry of another term at that index
AppendAcceptRuleReached ==
  \E c \in calls :
     /\ c.kind = "AE" /\ c.phase = "rsp" /\ ~c.ok /\ c.rspTerm = c.Term
     /\ Running(c.to) /\ state[c.to] = followerState /\ currentTerm[c.to] = c.Term
     /\ c.PrevLogIndex > 0 /\ c.PrevLogIndex < Len(log[c.to])
     /\ At(log[c.to], c.PrevLogIndex).Term # c.PrevLogTerm

Overlaps(c) ==
  \A k \in 1..Len(c.Entries) :
     /\ c.PrevLogIndex + k < Len(log[c.to])
     /\ At(log[c.to], c.PrevLogIndex + k).Term = c.Entries[k].Term

\* C31: AppendEntries is idempotent on overlap -- an accepted request whose
\* entries are all in the receiver's log already, with matching terms, cuts
\* nothing and appends nothing (log and entry slots stay as they are), and
\* handling any accepted request a second time leaves the log and the
\* commitIndex as they are after the first time.
OverlapIsNoOp ==
  [][\A c \in calls :
       (Serves(c) /\ c.kind = "AE" /\ ResponseTo(c).ok) =>
          LET r == c.to
              again == HandleAppendEntriesRequest(View(r)', c)
          IN /\ Overlaps(c) => (log'[r] = log[r] /\ disk'[r].slots = disk[r].slots)
             /\ again.ok
             /\ again.sv.log = log'[r]
             /\ again.sv.commitIndex = commitIndex'[r]]_vars

\* a follower has accepted a request with entries whose last entry lies
\* before the end of its log: a delayed request, all of whose entries it held
OverlapIsNoOpReached ==
  \E c \in calls :
     /\ c.kind = "AE" /\ c.phase = "rsp" /\ c.ok /\ Len(c.Entries) > 0
     /\ Running(c.to) /\ c.PrevLogIndex + Len(c.Entries) < Len(log[c.to]) - 1

(***************************************************************************)
(* Replication under a batch limit.  Server 1 is the only candidate and    *)
(* leads term 1; each request it builds for server 2 or 3 is cut at a      *)
(* limit between 1 and MaxLog, so a request may carry fewer entries than   *)
(* are pending and a LeaderCommit past its last entry.                     *)
(***************************************************************************)
BatchLimits == 1..MaxLog

NextBatch ==
  \/ FollowerTimeout(1, MaxTerm - 1)
  \/ CandidateWait(1)
  \/ BecomeLeader(1)
  \/ Heartbeat(1)
  \/ \E s \in Servers : AdvanceCommitIndex(s)
  \/ SendRequestVote(1, 3)
  \/ \E p \in {2, 3}, limit \in BatchLimits : SendAppendEntriesWithin(1, p, limit)
  \/ \E c \in calls : RecvRequestVote(c)
  \/ \E c \in calls : RecvRequestVoteResponse(c)
  \/ \E c \in calls : RecvAppendEntries(c)
  \/ \E c \in calls : RecvAppendEntriesResponse(c)
  \/ Apply(1, <<CommandOf(1)>>)
  \/ \E k \in 1..MaxApplyCalls : ApplyReturn(k)

SpecBatch == Init /\ [][NextBatch]_vars

(***************************************************************************)
(* Two candidates and two clients as in SpecClients, and a leader whose    *)
(* heartbeat comes round after it has committed its client's entry.        *)
(***************************************************************************)
NextRivals ==
  \/ NextClients
  \/ Heartbeat(1) /\ commitIndex[1] > 1

SpecRivals == Init /\ [][NextRivals]_vars

\* l1 and l2 hold the same term and command at each of the indices 1..n
SameUpTo(l1, l2, n) ==
  \A i \in 1..n :
     /\ i < Len(l1) /\ i < Len(l2)
     /\ At(l1, i).Term = At(l2, i).Term
     /\ At(l1, i).Command = At(l2, i).Command

\* C32: whenever a server moves its commitIndex to c while it handles an
\* AppendEntries request, its log holds at each index 1..c the term and the
\* command the log of the request's sender holds there.
CommitsLeaderEntries ==
  [][\A c \in calls :
       (Serves(c) /\ c.kind = "AE" /\ commitIndex'[c.to] # commitIndex[c.to]) =>
          SameUpTo(log'[c.to], log[c.from], commitIndex'[c.to])]_vars

\* C33: whenever a leader's appendEntries goroutine builds a request for
\* peer p, 1 <= nextIndex[p] <= lastLogIndex + 1 and matchIndex[p] <
\* nextIndex[p], and the request's PrevLogIndex is nextIndex[p] - 1, the
\* index of an entry of the sender's log.
NextIndexInRange ==
  [][\A c \in calls' \ calls :
       (c.kind = "AE" /\ c.phase = "req" /\ state[c.from] = leaderState) =>
          /\ 1 <= nextIndex[c.from][c.to]
          /\ nextIndex[c.from][c.to] <= Len(log[c.from])
          /\ matchIndex[c.from][c.to] < nextIndex[c.from][c.to]
          /\ c.PrevLogIndex = nextIndex[c.from][c.to] - 1]_vars

\* C34: every entry with a result sink that a server applies has its
\* result delivered on the sink in the step that applies it, once, whether
\* its command is empty or not.
SinkSignalled ==
  [][\A s \in Servers :
       (Running(s) /\ status'[s] = "running") =>
          \A i \in (lastApplied[s] + 1)..lastApplied'[s] :
             (i < Len(log[s]) /\ At(log[s], i).result # <<>>) =>
                LET r == At(log[s], i).result
                IN /\ r[2] \notin applyCalls[r[1]].got
                   /\ r[2] \in applyCalls'[r[1]].got]_vars

(***************************************************************************)
(* Commands the state machine refuses.  A cluster of one; the client sends *)
(* uploads and commands of an unknown kind, one or two per Apply call.     *)
(***************************************************************************)
\* the error DFSStateMachine.Apply returns for cmd, "" for none
ApplyError(cmd) ==
  IF decodeCommand(cmd).Kind \in {CreateFile, DeleteFile, RenameFile} THEN ""
  ELSE "unknown command"

\* a command of a kind the state machine does not know
UnknownOf(s) ==
  encodeCommand([Kind |-> 255, Path |-> <<96 + s>>, OldPath |-> <<>>,
                 NewPath |-> <<>>, Size |-> s])

ErrorCmds == {UploadOf(1), UnknownOf(1), UnknownOf(2)}

NextErrors ==
  \/ FollowerTimeout(1, MaxTerm)
  \/ CandidateTimeout(1, MaxTerm)
  \/ CandidateWait(1)
  \/ BecomeLeader(1)
  \/ AdvanceCommitIndex(1)
  \/ \E c \in ErrorCmds : ApplyWithin(1, <<c>>, MaxLog + 1)
  \/ \E c, d \in ErrorCmds : ApplyWithin(1, <<c, d>>, MaxLog + 1)
  \/ \E k \in 1..MaxApplyCalls : ApplyReturn(k)

SpecErrors == InitSingle /\ [][NextErrors]_vars

\* C35: an error of the state machine does not stop the log -- in every
\* step in which a server applies entries, lastApplied reaches commitIndex,
\* and every entry among them whose command the state machine refuses was
\* passed to the state machine and has its result (the error) delivered on
\* its sink.
ErrorDoesNotStop ==
  [][\A s \in Servers :
       (Running(s) /\ status'[s] = "running" /\ commitIndex'[s] > lastApplied[s]) =>
          /\ lastApplied'[s] = commitIndex'[s]
          /\ \A i \in (lastApplied[s] + 1)..commitIndex'[s] :
                LET e == At(log[s], i)
                IN (e.Command # <<>> /\ ApplyError(e.Command) # "") =>
                      /\ \E n \in (Len(applied[s]) + 1)..Len(applied'[s]) :
                            applied'[s][n] = <<i, e.Command>>
                      /\ e.result # <<>> => e.result[2] \in applyCalls'[e.result[1]].got]_vars

\* a refused command applied, an upload applied after it and in the map, and
\* the call that held the refused command returned
ErrorDoesNotStopReached ==
  \E n, m \in 1..Len(applied[1]) :
     /\ n < m
     /\ ApplyError(applied[1][n][2]) # "" /\ ApplyError(applied[1][m][2]) = ""
     /\ lastApplied[1] = applied[1][m][1]
     /\ Files(1) # {}
     /\ \E k \in 1..Len(applyCalls) :
           /\ applyCalls[k].status = "returned"
           /\ \E j \in 1..Len(applyCalls[k].commands) :
                 applyCalls[k].commands[j] = applied[1][n][2]

\* C36: persist before acknowledge -- while a granted vote or an accepted
\* AppendEntries is on its way back, the file of the server that answered
\* restores (whether it runs or has been killed) to a term not below the
\* response's, and for that term to the vote granted and to the entries
\* accepted at their indices.
AckedIsDurable ==
  \A c \in calls :
     (c.phase = "rsp" /\ c.ok) =>
        LET r == restore(disk[c.to])
        IN /\ r.ok
           /\ r.currentTerm >= c.rspTerm
           /\ (c.kind = "RV" /\ r.currentTerm = c.rspTerm) => r.votedFor = c.from
           /\ (c.kind = "AE" /\ r.currentTerm = c.rspTerm) =>
                 \A k \in 1..Len(c.Entries) :
                    /\ c.PrevLogIndex + k < Len(r.log)
                    /\ Wire(At(r.log, c.PrevLogIndex + k)) = Wire(c.Entries[k])

(***************************************************************************)
(* A follower that restarts.  Server 1 is the only candidate and, once     *)
(* elected with the vote of server 2, remains leader; server 2 may be      *)
(* killed and is started again, on the file it left or after the file was  *)
(* removed.  A client sends one command to the leader.                     *)
(***************************************************************************)
\* NewServer and Start after the file of s was removed: restore finds none
RestartClean(s) ==
  /\ s \in cluster[s] /\ status[s] = "crashed"
  /\ disk[s] # EmptyFile
  /\ LET r == restore(EmptyFile)
     IN /\ status' = [status EXCEPT ![s] = "running"]
        /\ currentTerm' = [currentTerm EXCEPT ![s] = r.currentTerm]
        /\ votedFor' = [votedFor EXCEPT ![s][s] = r.votedFor]
        /\ log' = [log EXCEPT ![s] = r.log]
  /\ disk' = [disk EXCEPT ![s] = EmptyFile]
  /\ UNCHANGED <<cluster, state, commitIndex, lastApplied, nextIndex, matchIndex, pc,
                 goroutines, calls, applied, applyCalls, crashes, leaders, committed>>

NextConverge ==
  \/ FollowerTimeout(1, MaxTerm - 1)
  \/ CandidateWait(1)
  \/ BecomeLeader(1)
  \/ Heartbeat(1)
  \/ AdvanceCommitIndex(1)
  \/ AdvanceCommitIndex(2)
  \/ SendRequestVote(1, 2) /\ Outstanding(1)
  \/ SendAppendEntries(1, 2) /\ Outstanding(1)
  \/ \E c \in calls : RecvRequestVote(c)
  \/ \E c \in calls : RecvRequestVoteResponse(c)
  \/ \E c \in calls : RecvAppendEntries(c)
  \/ \E c \in calls : RecvAppendEntriesResponse(c)
  \/ applyCalls = <<>> /\ Apply(1, <<CommandOf(1)>>)
  \/ \E k \in 1..MaxApplyCalls : ApplyReturn(k)
  \/ Crash(2)
  \/ Restart(2)
  \/ RestartClean(2)

\* Scheduling: the driver loops iterate, goroutines run, the network
\* delivers between running servers, and a killed server is started again.
FairConverge ==
  /\ WF_vars(FollowerTimeout(1, MaxTerm - 1))
  /\ WF_vars(CandidateWait(1))
  /\ ([]<>(~Counting(1)) \/ []<><<BecomeLeader(1)>>_vars)
  /\ WF_vars(Heartbeat(1))
  /\ WF_vars(AdvanceCommitIndex(1))
  /\ WF_vars(AdvanceCommitIndex(2))
  /\ WF_vars(SendRequestVote(1, 2) /\ Outstanding(1))
  /\ WF_vars(SendAppendEntries(1, 2) /\ Outstanding(1))
  /\ ([]<>(~Arrived("RV")) \/ []<><<\E c \in calls : RecvRequestVote(c)>>_vars)
  /\ ([]<>(~Answer("RV")) \/ []<><<\E c \in calls : RecvRequestVoteResponse(c)>>_vars)
  /\ ([]<>(~Arrived("AE")) \/ []<><<\E c \in calls : RecvAppendEntries(c)>>_vars)
  /\ ([]<>(~Answer("AE")) \/ []<><<\E c \in calls : RecvAppendEntriesResponse(c)>>_vars)
  /\ WF_vars(Restart(2) \/ RestartClean(2))

SpecConverge == Init /\ [][NextConverge]_vars /\ FairConverge

\* server 2 runs with the leader's log (term and command at every index)
\* and the leader's commitIndex
Converged ==
  /\ Running(2)
  /\ Len(log[2]) = Len(log[1])
  /\ \A i \in 1..Len(log[1]) : Wire(log[2][i]) = Wire(log[1][i])
  /\ commitIndex[2] = commitIndex[1]

\* C37: replication convergence -- once server 1 leads, the follower it
\* reaches comes to hold the leader's log and commitIndex, also after it
\* was killed and started again on a stale file or without its file.
Convergence == (state[1] = leaderState) ~> Converged

\* the same, apart from a follower whose restart has failed
ConvergenceOfStarted == (state[1] = leaderState) ~> (Converged \/ status[2] = "failed")

\* ---------------------------------------------------------------------------
\* A leader that is deposed while a client call waits.  Server 1 is elected in
\* the first term with server 3's vote and takes one client command; server 2
\* then stands for the next term, is elected with server 3's vote and
\* replicates its own log to server 1 (raft.go 479-517, 441-453, 645-657).
DeposedVoteLinks == {<<1, 3>>, <<2, 3>>, <<2, 1>>}

DeposedAppendLinks == {<<1, 3>>, <<2, 1>>}

NextDeposed ==
  \/ FollowerTimeout(1, MaxTerm - 1)
  \/ CandidateWait(1)
  \/ BecomeLeader(1)
  \/ applyCalls = <<>> /\ Apply(1, <<CommandOf(1)>>)
  \/ applyCalls # <<>> /\ FollowerTimeout(2, MaxTerm)
  \/ CandidateTimeout(2, MaxTerm)
  \/ CandidateWait(2)
  \/ BecomeLeader(2)
  \/ Heartbeat(2)
  \/ \E s \in Servers : AdvanceCommitIndex(s)
  \/ \E l \in DeposedVoteLinks : SendRequestVote(l[1], l[2]) /\ Outstanding(1)
  \/ \E l \in DeposedAppendLinks : SendAppendEntries(l[1], l[2]) /\ Outstanding(1)
  \/ \E c \in calls : RecvRequestVote(c)
  \/ \E c \in calls : RecvRequestVoteResponse(c)
  \/ \E c \in calls : RecvAppendEntries(c)
  \/ \E c \in calls : RecvAppendEntriesResponse(c)
  \/ \E k \in 1..MaxApplyCalls : ApplyReturn(k)

FairDeposed ==
  /\ WF_vars(FollowerTimeout(1, MaxTerm - 1))
  /\ \A s \in Candidates :
       /\ WF_vars(CandidateWait(s))
       /\ ([]<>(~Counting(s)) \/ []<><<BecomeLeader(s)>>_vars)
  /\ WF_vars(applyCalls # <<>> /\ FollowerTimeout(2, MaxTerm))
  /\ WF_vars(CandidateTimeout(2, MaxTerm))
  /\ WF_vars(Heartbeat(2))
  /\ WF_vars(\E s \in Servers : AdvanceCommitIndex(s))
  /\ WF_vars(\E l \in DeposedVoteLinks : SendRequestVote(l[1], l[2]) /\ Outstanding(1))
  /\ WF_vars(\E l \in DeposedAppendLinks : SendAppendEntries(l[1], l[2]) /\ Outstanding(1))
  /\ ([]<>(~Arrived("RV")) \/ []<><<\E c \in calls : RecvRequestVote(c)>>_vars)
  /\ ([]<>(~Answer("RV")) \/ []<><<\E c \in calls : RecvRequestVoteResponse(c)>>_vars)
  /\ ([]<>(~Arrived("AE")) \/ []<><<\E c \in calls : RecvAppendEntries(c)>>_vars)
  /\ ([]<>(~Answer("AE")) \/ []<><<\E c \in calls : RecvAppendEntriesResponse(c)>>_vars)
  /\ WF_vars(\E k \in 1..MaxApplyCalls : ApplyReturn(k))

SpecDeposed == Init /\ [][NextDeposed]_vars /\ FairDeposed

\* call k waits for an entry that its server's log no longer holds
Removed(k) ==
  /\ Waiting(k)
  /\ \E i \in 1..Len(applyCalls[k].commands) :
        LET at == applyCalls[k].first + i - 1
            l == log[applyCalls[k].srv]
        IN at >= Len(l) \/ At(l, at).result # <<k, i>>

\* C38: an Apply call that appended entries eventually stops waiting (it
\* returns its results or an error) also when the server has lost its
\* leadership before the entries committed and the new leader's AppendEntries
\* has removed them from its log.
ApplyReturnsWhenDeposed ==
  \A k \in 1..MaxApplyCalls : Removed(k) ~> ~Waiting(k)

(***************************************************************************)
(* The process killed inside persist, on the one-member cluster.  persist  *)
(* writes the page with fd.Write, then fills a bufio.Writer with the new   *)
(* slots and flushes it (raft.go 184-236): a process that ends between the *)
(* two leaves the new page in front of the old slots.                      *)
(***************************************************************************)
\* Server.Apply on the leader, the process killed inside persist after the
\* page is written and before the slots are flushed
ApplyInterrupted(s, commands) ==
  /\ Running(s) /\ state[s] = leaderState
  /\ ~TooLarge(commands)
  /\ Len(applyCalls) < MaxApplyCalls
  /\ Len(log[s]) + Len(commands) <= MaxLog
  /\ crashes < MaxCrashes
  /\ crashes' = crashes + 1
  /\ disk' = [disk EXCEPT ![s] =
               persistPanicked(disk[s], currentTerm[s], getVotedFor(View(s)),
                               log[s] \o NewEntries(currentTerm[s], commands,
                                                    Len(applyCalls) + 1))]
  /\ Gone(s)
  /\ UNCHANGED <<cluster, leaders, committed>>

\* the batches clients hand the leader: one command, or two
TornBatches == {<<c>> : c \in ClientCmds} \cup {<<c, d>> : c, d \in ClientCmds}

NextTorn ==
  \/ FollowerTimeout(1, MaxTerm)
  \/ CandidateTimeout(1, MaxTerm)
  \/ CandidateWait(1)
  \/ BecomeLeader(1)
  \/ AdvanceCommitIndex(1)
  \/ \E cmds \in TornBatches : Apply(1, cmds)
  \/ \E cmds \in TornBatches : ApplyInterrupted(1, cmds)
  \/ \E k \in 1..MaxApplyCalls : ApplyReturn(k)
  \/ Crash(1)
  \/ Restart(1)

SpecTorn == InitSingle /\ [][NextTorn]_vars

\* what s would hold durably once Apply(commands) had persisted
AfterApply(s, commands) ==
  LET sv == ApplyAppend(View(s), commands, Len(applyCalls) + 1)
  IN [currentTerm |-> sv.currentTerm, votedFor |-> getVotedFor(sv),
      log |-> [i \in 1..Len(sv.log) |-> Wire(sv.log[i])]]

\* C39: persist is atomic under a crash -- when the process ends inside
\* persist, after the page with the new log length is written and before the
\* new slots are, restore on the file succeeds and yields either the complete
\* state before the persist or the complete state after it.
PersistAtomic ==
  [][\A cmds \in TornBatches :
       ApplyInterrupted(1, cmds) =>
          /\ restore(disk'[1]).ok
          /\ \/ Restored(1)' = Durable(1)
             \/ Restored(1)' = AfterApply(1, cmds)]_vars

\* C40: leader append-only -- while a server is leader in one term its log
\* only grows: across every step that leaves it running, leader and in the
\* same term, the log before is a prefix of the log after (no entry removed,
\* none replaced).
LeaderAppendOnly ==
  [][\A s \in Servers :
       (/\ Running(s) /\ state[s] = leaderState
        /\ status'[s] = "running" /\ state'[s] = leaderState
        /\ currentTerm'[s] = currentTerm[s]) =>
          /\ Len(log'[s]) >= Len(log[s])
          /\ SubSeq(log'[s], 1, Len(log[s])) = log[s]]_vars

\* a leader has refused an AppendEntries of its own term whose first entry
\* differs in term from the entry its log holds at that index
LeaderAppendOnlyReached ==
  \E c \in calls :
     /\ c.kind = "AE" /\ c.phase = "rsp" /\ ~c.ok
     /\ Len(c.Entries) > 0
     /\ state[c.to] = leaderState /\ currentTerm[c.to] = c.Term
     /\ c.rspTerm = c.Term
     /\ c.PrevLogIndex + 1 < Len(log[c.to])
     /\ At(log[c.to], Len(log[c.to]) - 1).Term = c.Term
     /\ c.Entries[1].Term # At(log[c.to], c.PrevLogIndex + 1).Term

====
